---- MODULE Spec2Model ----
(***************************************************************************)
(* A model of py2puml: the parser (core/parser.py), the diagram generator  *)
(* (core/generator.py) and the file analyzer (core/analyzer.py).           *)
(*                                                                         *)
(* Python strings are sequences of one-character strings, so that          *)
(* startswith, endswith, split, strip and the ordering used by sorted()    *)
(* are computed and not assumed.  A Python tuple or list is a sequence.    *)
(***************************************************************************)
EXTENDS Integers, Sequences, FiniteSets, TLC

VARIABLES
    directory,      \* the files of the analysed directory, in rglob order
    use_gitignore,  \* FileFilter.use_gitignore
    hashseed,       \* the interpreter's string hash seed (fixes set iteration order)
    pc,             \* position of the generate_uml call in progress
    pathlist,       \* generate_uml's local pathlist
    idx,            \* index in pathlist of the next file of the loop
    parsed_data,    \* generate_uml's local parsed_data (last parse_file result)
    uml,            \* UMLGenerator.uml
    all_class_bases,\* UMLGenerator.all_class_bases
    gen_errors,     \* UMLGenerator.errors
    gen_files_with_errors, \* UMLGenerator.files_with_errors
    errors,         \* UMLGenerator.parser.errors
    files_with_errors,     \* UMLGenerator.parser.files_with_errors
    returned,       \* the documents returned by the generate_uml calls so far
    raised,         \* exceptions that have reached a caller
    report,         \* the last FileAnalyzer.describe_file call and its outcome
    an_errors,      \* FileAnalyzer.parser.errors
    an_files_with_errors,  \* FileAnalyzer.parser.files_with_errors
    call            \* a call of one of the pure functions: its arguments and result

vars == <<directory, use_gitignore, hashseed, pc, pathlist, idx, parsed_data, uml,
          all_class_bases, gen_errors, gen_files_with_errors, errors,
          files_with_errors, returned, raised, report, an_errors,
          an_files_with_errors, call>>

(***************************************************************************)
(* Bounds of the model.                                                    *)
(***************************************************************************)
MaxNameLen == 5     \* longest identifier given to _visibility
MaxCount == 2       \* largest method count given to _determine_class_type
MaxGroup == 2       \* largest member group given to _format_class_info
MaxFiles == 2       \* files in the analysed directory
MaxCalls == 2       \* generate_uml calls on one generator

(***************************************************************************)
(* Strings.                                                                *)
(***************************************************************************)
\* The characters the model uses, in code point order.
Alphabet ==
    <<" ", "#", "(", ")", "+", ",", "-", ".", "/", ":", "<", "=", ">", "@",
      "A", "B", "C", "D", "E", "G", "M", "U", "[", "]", "_",
      "a", "b", "c", "d", "e", "f", "g", "h", "i", "j", "k", "l", "m", "n", "o", "p",
      "r", "s", "t", "u", "v", "w", "x", "y", "z", "{", "}", "~">>

Ord(c) == CHOOSE i \in 1..Len(Alphabet) : Alphabet[i] = c

\* str.__lt__: the order of code points, a proper prefix first.
RECURSIVE StrLess(_, _)
StrLess(s, t) ==
    IF t = <<>> THEN FALSE
    ELSE IF s = <<>> THEN TRUE
    ELSE IF Head(s) = Head(t) THEN StrLess(Tail(s), Tail(t))
    ELSE Ord(Head(s)) < Ord(Head(t))

StartsWith(s, p) == Len(s) >= Len(p) /\ SubSeq(s, 1, Len(p)) = p

EndsWith(s, p) == Len(s) >= Len(p) /\ SubSeq(s, Len(s) - Len(p) + 1, Len(s)) = p

\* 'x in list'
Contains(list, x) == \E i \in 1..Len(list) : list[i] = x

\* sep.join(parts)
RECURSIVE Join(_, _)
Join(sep, parts) ==
    IF parts = <<>> THEN <<>>
    ELSE IF Len(parts) = 1 THEN parts[1]
    ELSE parts[1] \o sep \o Join(sep, Tail(parts))

\* The index of the first occurrence of sep in s at or after i, 0 when there is none.
RECURSIVE Find(_, _, _)
Find(s, sep, i) ==
    IF i + Len(sep) - 1 > Len(s) THEN 0
    ELSE IF SubSeq(s, i, i + Len(sep) - 1) = sep THEN i
    ELSE Find(s, sep, i + 1)

\* s.split(sep)
RECURSIVE Split(_, _)
Split(s, sep) ==
    LET k == Find(s, sep, 1)
    IN  IF k = 0 THEN <<s>>
        ELSE <<SubSeq(s, 1, k - 1)>> \o Split(SubSeq(s, k + Len(sep), Len(s)), sep)

\* s.strip()
RECURSIVE LStrip(_)
LStrip(s) == IF s # <<>> /\ Head(s) = " " THEN LStrip(Tail(s)) ELSE s

RECURSIVE RStrip(_)
RStrip(s) ==
    IF s # <<>> /\ s[Len(s)] = " " THEN RStrip(SubSeq(s, 1, Len(s) - 1)) ELSE s

Strip(s) == RStrip(LStrip(s))

\* s.count(c) for a character c
RECURSIVE Count(_, _)
Count(s, c) ==
    IF s = <<>> THEN 0
    ELSE (IF Head(s) = c THEN 1 ELSE 0) + Count(Tail(s), c)

\* The concatenation of a sequence of sequences.
RECURSIVE Concat(_)
Concat(ss) == IF ss = <<>> THEN <<>> ELSE Head(ss) \o Concat(Tail(ss))

\* Literals of the source.
S_dataclass == <<"d", "a", "t", "a", "c", "l", "a", "s", "s">>
S_abstractmethod == <<"a", "b", "s", "t", "r", "a", "c", "t", "m", "e", "t", "h", "o", "d">>
S_staticmethod == <<"s", "t", "a", "t", "i", "c", "m", "e", "t", "h", "o", "d">>
S_classmethod == <<"c", "l", "a", "s", "s", "m", "e", "t", "h", "o", "d">>
S_property == <<"p", "r", "o", "p", "e", "r", "t", "y">>
S_setter == <<"s", "e", "t", "t", "e", "r">>
S_deleter == <<"d", "e", "l", "e", "t", "e", "r">>
S_init == <<"_", "_", "i", "n", "i", "t", "_", "_">>
S_self == <<"s", "e", "l", "f">>
S_cls == <<"c", "l", "s">>
S_unknown == <<"u", "n", "k", "n", "o", "w", "n">>
S_class_sp == <<"c", "l", "a", "s", "s", " ">>
S_def_sp == <<"d", "e", "f", " ">>
S_abstract_tag == <<" ", "{", "a", "b", "s", "t", "r", "a", "c", "t", "}">>
S_static_tag == <<" ", "{", "s", "t", "a", "t", "i", "c", "}">>
S_AttributeError == <<"A", "t", "t", "r", "i", "b", "u", "t", "e", "E", "r", "r", "o", "r">>
S_Any == <<"A", "n", "y">>
S_read_only == <<"{", "r", "e", "a", "d", " ", "o", "n", "l", "y", "}">>
S_read_write == <<"{", "r", "e", "a", "d", " ", "w", "r", "i", "t", "e", "}">>
S_write_only == <<"{", "w", "r", "i", "t", "e", " ", "o", "n", "l", "y", "}">>
S_ast_object == <<"<", "a", "s", "t", " ", "o", "b", "j", "e", "c", "t", ">">>
S_pass == <<"p", "a", "s", "s">>
S_UnknownClass == <<"U", "n", "k", "n", "o", "w", "n", "C", "l", "a", "s", "s">>

\* Python's None and a present optional value.
None == [none |-> TRUE]

Some(x) == [none |-> FALSE, val |-> x]

(***************************************************************************)
(* PythonParser: the pure helpers.                                         *)
(***************************************************************************)
\* CLASS_STYLE_CONFIG.get(class_type, CLASS_STYLE_CONFIG["class"]); a colour of
\* None is "".
CLASS_STYLE_CONFIG(class_type) ==
    CASE class_type = "abstract" -> [keyword |-> "abstract", color |-> "#FFFFFF"]
      [] class_type = "dataclass" -> [keyword |-> "class", color |-> "#90EE90"]
      [] class_type = "interface" -> [keyword |-> "interface", color |-> "#FFFFFF"]
      [] OTHER -> [keyword |-> "class", color |-> ""]

\* _visibility with the test for a leading '__' made before the test for a
\* leading and trailing '__'.
_visibility_private_first(name) ==
    IF StartsWith(name, <<"_", "_">>) THEN <<<<"-">>, "private">>
    ELSE IF StartsWith(name, <<"_", "_">>) /\ EndsWith(name, <<"_", "_">>)
    THEN <<<<"~">>, "private">>
    ELSE IF StartsWith(name, <<"_">>) THEN <<<<"#">>, "protected">>
    ELSE <<<<"+">>, "public">>

\* PythonParser._visibility: (prefix, vis_type)
_visibility(name) ==
    IF StartsWith(name, <<"_", "_">>) /\ EndsWith(name, <<"_", "_">>)
    THEN <<<<"~">>, "private">>
    ELSE IF StartsWith(name, <<"_", "_">>) THEN <<<<"-">>, "private">>
    ELSE IF StartsWith(name, <<"_">>) THEN <<<<"#">>, "protected">>
    ELSE <<<<"+">>, "public">>

\* _determine_class_type with the abstract methods looked at before the
\* decorators.
_determine_class_type_abstract_first(has_fields, abstract_method_count, total_method_count, bases, decorators) ==
    IF abstract_method_count > 0 THEN "abstract"
    ELSE IF ~decorators.none /\ decorators.val # <<>>
            /\ Contains(decorators.val, S_dataclass)
    THEN "dataclass"
    ELSE IF has_fields /\ total_method_count = 0 THEN "dataclass"
    ELSE IF total_method_count = 0 THEN "interface"
    ELSE "class"

\* PythonParser._determine_class_type; bases and decorators are optional lists.
_determine_class_type(has_fields, abstract_method_count, total_method_count, bases, decorators) ==
    IF ~decorators.none /\ decorators.val # <<>>
       /\ Contains(decorators.val, S_dataclass)
    THEN "dataclass"
    ELSE IF abstract_method_count > 0 THEN "abstract"
    ELSE IF has_fields /\ total_method_count = 0 THEN "dataclass"
    ELSE IF total_method_count = 0 THEN "interface"
    ELSE "class"

\* UMLGenerator.determine_class_type of the compatibility adapter: the
\* parser's _determine_class_type with decorators left at its default None.
determine_class_type(has_fields, abstract_method_count, total_method_count, bases) ==
    _determine_class_type(has_fields, abstract_method_count, total_method_count, bases, None)

\* UMLGenerator.determine_class_type of the old module uml_generator.
uml_generator_determine_class_type(has_fields, abstract_method_count, total_method_count, bases) ==
    IF ~bases.none /\ bases.val # <<>> /\ Contains(bases.val, <<"A", "B", "C">>)
       /\ abstract_method_count > 0
    THEN IF abstract_method_count = total_method_count /\ abstract_method_count >= 2
            /\ ~has_fields
         THEN "interface"
         ELSE "abstract class"
    ELSE IF abstract_method_count > 0 THEN "abstract class"
    ELSE "class"

(***************************************************************************)
(* UMLGenerator._format_class_info.  The document is a sequence of the     *)
(* pieces appended to it; MemberLines are the '    {prefix} {text}\n'      *)
(* lines of one group.                                                     *)
(***************************************************************************)
MemberLines(group) ==
    [i \in 1..Len(group) |->
        [k |-> "member", prefix |-> group[i][1], text |-> group[i][2]]]

Separator(s) == [k |-> "separator", s |-> s]

\* _format_class_info with the first separator written after the fields
\* whatever follows them.
_format_class_info_separator_after_fields(class_info) ==
    IF Len(class_info) # 8
    THEN <<[k |-> "class_basic",
            name |-> IF Len(class_info) > 0 THEN class_info[1] ELSE S_UnknownClass],
           [k |-> "class_close"]>>
    ELSE
    LET fields == class_info[2]
        attributes == class_info[3]
        static_methods == class_info[4]
        methods == class_info[5]
        properties == class_info[6]
        style_config == CLASS_STYLE_CONFIG(class_info[7])
    IN  <<[k |-> "class_open", keyword |-> style_config.keyword,
           name |-> class_info[1], color |-> style_config.color]>>
        \o MemberLines(fields)
        \o (IF Len(fields) # 0 THEN <<Separator("....")>> ELSE <<>>)
        \o MemberLines(properties)
        \o MemberLines(methods)
        \o (IF (Len(fields) # 0 \/ Len(methods) # 0 \/ Len(properties) # 0)
               /\ (Len(attributes) # 0 \/ Len(static_methods) # 0)
            THEN <<Separator("__Static__")>> ELSE <<>>)
        \o MemberLines(attributes)
        \o (IF Len(attributes) # 0 /\ Len(static_methods) # 0
            THEN <<Separator("....")>> ELSE <<>>)
        \o MemberLines(static_methods)
        \o <<[k |-> "class_close"]>>

_format_class_info(class_info) ==
    IF Len(class_info) # 8
    THEN \* the unpacking fails: the basic block of the except branch
         <<[k |-> "class_basic",
            name |-> IF Len(class_info) > 0 THEN class_info[1] ELSE S_UnknownClass],
           [k |-> "class_close"]>>
    ELSE
    LET class_name == class_info[1]
        fields == class_info[2]
        attributes == class_info[3]
        static_methods == class_info[4]
        methods == class_info[5]
        properties == class_info[6]
        class_type == class_info[7]
        style_config == CLASS_STYLE_CONFIG(class_type)
    IN  <<[k |-> "class_open", keyword |-> style_config.keyword,
           name |-> class_name, color |-> style_config.color]>>
        \o MemberLines(fields)
        \o (IF Len(fields) # 0 /\ (Len(methods) # 0 \/ Len(properties) # 0)
            THEN <<Separator("....")>> ELSE <<>>)
        \o MemberLines(properties)
        \o MemberLines(methods)
        \o (IF (Len(fields) # 0 \/ Len(methods) # 0 \/ Len(properties) # 0)
               /\ (Len(attributes) # 0 \/ Len(static_methods) # 0)
            THEN <<Separator("__Static__")>> ELSE <<>>)
        \o MemberLines(attributes)
        \o (IF Len(attributes) # 0 /\ Len(static_methods) # 0
            THEN <<Separator("....")>> ELSE <<>>)
        \o MemberLines(static_methods)
        \o <<[k |-> "class_close"]>>

(***************************************************************************)
(* Python dicts keep insertion order: a dict is a sequence of <<key,       *)
(* value>> pairs with distinct keys.                                       *)
(***************************************************************************)
HasKey(d, key) == \E i \in 1..Len(d) : d[i][1] = key

Get(d, key) == d[CHOOSE i \in 1..Len(d) : d[i][1] = key][2]

\* d[key] = value
Put(d, key, value) ==
    IF HasKey(d, key)
    THEN [i \in 1..Len(d) |-> IF d[i][1] = key THEN <<key, value>> ELSE d[i]]
    ELSE Append(d, <<key, value>>)

\* d.update(other)
RECURSIVE Update(_, _)
Update(d, other) ==
    IF other = <<>> THEN d
    ELSE Update(Put(d, Head(other)[1], Head(other)[2]), Tail(other))

(***************************************************************************)
(* The syntax tree ast.parse returns.  A node is a record with its class   *)
(* in "type"; an absent optional expression is NoExpr.                     *)
(***************************************************************************)
Name(id) == [type |-> "Name", id |-> id]

Attribute(value, attr) == [type |-> "Attribute", value |-> value, attr |-> attr]

CallExpr(func) == [type |-> "Call", func |-> func]

Constant(value) == [type |-> "Constant", value |-> value]

Subscript(value, slice) == [type |-> "Subscript", value |-> value, slice |-> slice]

BinOp == [type |-> "BinOp"]

NoExpr == [type |-> "None"]

Arg(arg, annotation) == [arg |-> arg, annotation |-> annotation]

FunctionDef(name, args, decorator_list, returns, body) == [type |-> "FunctionDef", name |-> name, args |-> args, decorator_list |-> decorator_list, returns |-> returns, body |-> body]

AsyncFunctionDef(name, args, decorator_list, returns, body) == [type |-> "AsyncFunctionDef", name |-> name, args |-> args, decorator_list |-> decorator_list, returns |-> returns, body |-> body]

ClassDef(name, bases, decorator_list, body) == [type |-> "ClassDef", name |-> name, bases |-> bases, decorator_list |-> decorator_list, body |-> body]

Assign(targets) == [type |-> "Assign", targets |-> targets]

AnnAssign(target, annotation) == [type |-> "AnnAssign", target |-> target, annotation |-> annotation]

Return(value) == [type |-> "Return", value |-> value]

Raise(exc) == [type |-> "Raise", exc |-> exc]

Expr(value) == [type |-> "Expr", value |-> value]

Pass == [type |-> "Pass"]

\* hasattr(node, 'decorator_list') and node.decorator_list
HasDecorators(node) ==
    /\ node.type \in {"ClassDef", "FunctionDef", "AsyncFunctionDef"}
    /\ node.decorator_list # <<>>

\* any(isinstance(dec, ast.Name) and dec.id == id for dec in node.decorator_list)
AnyNameDecorator(node, id) ==
    \E i \in 1..Len(node.decorator_list) :
        /\ node.decorator_list[i].type = "Name"
        /\ node.decorator_list[i].id = id

\* sorted(list) of strings
RECURSIVE InsertStr(_, _)
InsertStr(sorted, x) ==
    IF sorted = <<>> THEN <<x>>
    ELSE IF StrLess(x, Head(sorted)) THEN <<x>> \o sorted
    ELSE <<Head(sorted)>> \o InsertStr(Tail(sorted), x)

RECURSIVE SortedStr(_)
SortedStr(list) ==
    IF list = <<>> THEN <<>>
    ELSE InsertStr(SortedStr(SubSeq(list, 1, Len(list) - 1)), list[Len(list)])

\* PythonParser._get_decorator_name
_get_decorator_name(decorator) ==
    IF decorator.type = "Name" THEN decorator.id
    ELSE IF decorator.type = "Attribute"
    THEN IF decorator.value.type = "Name"
         THEN decorator.value.id \o <<".">> \o decorator.attr
         ELSE decorator.attr
    ELSE IF decorator.type = "Call" /\ decorator.func.type = "Name"
    THEN decorator.func.id
    ELSE IF decorator.type = "Call" /\ decorator.func.type = "Attribute"
    THEN decorator.func.attr
    ELSE S_unknown

\* PythonParser._extract_decorators
_extract_decorators(node) ==
    IF HasDecorators(node)
    THEN SelectSeq([i \in 1..Len(node.decorator_list) |->
                        _get_decorator_name(node.decorator_list[i])],
                   LAMBDA d : d # <<>>)
    ELSE <<>>

\* PythonParser._format_name_with_decorators
_format_name_with_decorators(name, decorators) ==
    LET filtered_decorators == SelectSeq(decorators, LAMBDA d : d # S_dataclass)
        sorted_decorators == SortedStr(filtered_decorators)
    IN  IF decorators = <<>> \/ filtered_decorators = <<>> THEN name
        ELSE name \o Concat([i \in 1..Len(sorted_decorators) |->
                                <<"@">> \o sorted_decorators[i]])

\* PythonParser._get_type_annotation
RECURSIVE _get_type_annotation(_)
_get_type_annotation(annotation) ==
    IF annotation.type = "Name" THEN annotation.id
    ELSE IF annotation.type = "Constant" THEN annotation.value
    ELSE IF annotation.type = "Attribute"
    THEN _get_type_annotation(annotation.value) \o <<".">> \o annotation.attr
    ELSE IF annotation.type = "Subscript"
    THEN _get_type_annotation(annotation.value) \o <<"[">>
         \o _get_type_annotation(annotation.slice) \o <<"]">>
    ELSE S_ast_object   \* str(annotation), the object's repr

\* [arg.arg for arg in node.args.args]
ArgNames(node) == [i \in 1..Len(node.args) |-> node.args[i].arg]

\* PythonParser._process_method_def:
\* (prefix, method_signature, is_abstract, is_static, is_class)
_process_method_def(body_item) ==
    LET decorators == _extract_decorators(body_item)
        is_abstract == AnyNameDecorator(body_item, S_abstractmethod)
        is_static == AnyNameDecorator(body_item, S_staticmethod)
        is_class == AnyNameDecorator(body_item, S_classmethod)
        filtered_decorators ==
            SelectSeq(decorators, LAMBDA d :
                d \notin {S_staticmethod, S_classmethod, S_abstractmethod})
        method_name ==
            IF is_static \/ is_class \/ is_abstract
            THEN _format_name_with_decorators(body_item.name, filtered_decorators)
            ELSE _format_name_with_decorators(body_item.name, decorators)
        prefix == _visibility(body_item.name)[1]
        all_args == ArgNames(body_item)
        args == IF is_class /\ all_args # <<>> /\ all_args[1] = S_cls
                THEN Tail(all_args)
                ELSE IF ~is_static /\ ~is_class /\ all_args # <<>> /\ all_args[1] = S_self
                THEN Tail(all_args)
                ELSE all_args
        method_signature == method_name \o <<"(">> \o Join(<<",", " ">>, args) \o <<")">>
    IN  <<IF is_abstract THEN prefix \o S_abstract_tag
          ELSE IF is_static THEN prefix \o S_static_tag
          ELSE prefix,
          method_signature, is_abstract, is_static, is_class>>

\* PythonParser._is_property_method
_is_property_method(node) == HasDecorators(node) /\ AnyNameDecorator(node, S_property)

\* Whether node carries the decorator <owner>.<attr>
HasAccessorDecorator(node, owner, attr) ==
    /\ HasDecorators(node)
    /\ \E i \in 1..Len(node.decorator_list) :
        LET decorator == node.decorator_list[i]
        IN  /\ decorator.type = "Attribute"
            /\ decorator.value.type = "Name"
            /\ decorator.value.id = owner
            /\ decorator.attr = attr

\* PythonParser._is_property_setter_or_deleter
_is_property_setter_or_deleter(node) ==
    \/ HasAccessorDecorator(node, node.name, S_setter)
    \/ HasAccessorDecorator(node, node.name, S_deleter)

\* PythonParser._getter_raises_attribute_error
_getter_raises_attribute_error(property_node) ==
    \E i \in 1..Len(property_node.body) :
        LET item == property_node.body[i]
        IN  /\ item.type = "Raise"
            /\ \/ item.exc.type = "Name" /\ item.exc.id = S_AttributeError
               \/ /\ item.exc.type = "Call"
                  /\ item.exc.func.type = "Name"
                  /\ item.exc.func.id = S_AttributeError

\* _process_property_method with a deleter taken for a setter.
_process_property_method_deleter_counts(property_node, class_body) ==
    LET property_name == property_node.name
        has_setter ==
            \E i \in 1..Len(class_body) :
                /\ class_body[i].type = "FunctionDef"
                /\ class_body[i].name = property_name
                /\ \/ HasAccessorDecorator(class_body[i], property_name, S_setter)
                   \/ HasAccessorDecorator(class_body[i], property_name, S_deleter)
        access_level ==
            IF has_setter
            THEN IF _getter_raises_attribute_error(property_node)
                 THEN S_write_only ELSE S_read_write
            ELSE S_read_only
        return_type ==
            IF property_node.returns.type # "None"
            THEN <<":", " ">> \o _get_type_annotation(property_node.returns)
            ELSE <<>>
    IN  <<_visibility(property_name)[1],
          property_name \o return_type \o <<" ">> \o access_level>>

\* PythonParser._process_property_method: (prefix, property_signature)
_process_property_method(property_node, class_body) ==
    LET property_name == property_node.name
        prefix == _visibility(property_name)[1]
        has_setter ==
            \E i \in 1..Len(class_body) :
                /\ class_body[i].type = "FunctionDef"
                /\ class_body[i].name = property_name
                /\ HasAccessorDecorator(class_body[i], property_name, S_setter)
        access_level ==
            IF has_setter
            THEN IF _getter_raises_attribute_error(property_node)
                 THEN S_write_only ELSE S_read_write
            ELSE S_read_only
        return_type ==
            IF property_node.returns.type # "None"
            THEN <<":", " ">> \o _get_type_annotation(property_node.returns)
            ELSE <<>>
    IN  <<prefix, property_name \o return_type \o <<" ">> \o access_level>>

\* PythonParser._process_attributes
_process_attributes(body_item) ==
    IF body_item.target.type = "Name"
    THEN LET attr_name == body_item.target.id
             type_annotation ==
                 IF body_item.annotation.type # "None"
                 THEN _get_type_annotation(body_item.annotation) ELSE <<>>
         IN  <<<<_visibility(attr_name)[1], attr_name \o <<":", " ">> \o type_annotation>>>>
    ELSE <<>>

\* PythonParser._process_fields
_process_fields(body_item) ==
    LET IsSelfAttribute(target) ==
            /\ target.type = "Attribute"
            /\ target.value.type = "Name"
            /\ target.value.id = S_self
        own == SelectSeq(body_item.targets, IsSelfAttribute)
    IN  [i \in 1..Len(own) |-> <<_visibility(own[i].attr)[1], own[i].attr>>]

\* PythonParser._extract_fields_from_init
_extract_fields_from_init(init_method) ==
    LET assigns == SelectSeq(init_method.body, LAMBDA item : item.type = "Assign")
    IN  Concat([i \in 1..Len(assigns) |-> _process_fields(assigns[i])])

\* The loop of _process_class_def files a method m, the tuple that
\* _process_method_def returned, with the static methods or the methods.
\* The method lists with the constructor left out of them.
AddMethodSkipsInit(acc, m) ==
    IF StartsWith(m[2], S_init) THEN acc
    ELSE [acc EXCEPT
            !.abstract_method_count = IF m[3] THEN @ + 1 ELSE @,
            !.static_methods = IF m[4] \/ m[5] THEN Append(@, <<m[1], m[2]>>) ELSE @,
            !.methods = IF m[4] \/ m[5] THEN @ ELSE Append(@, <<m[1], m[2]>>)]

AddMethod(acc, m) ==
    [acc EXCEPT
        !.abstract_method_count = IF m[3] THEN @ + 1 ELSE @,
        !.static_methods = IF m[4] \/ m[5] THEN Append(@, <<m[1], m[2]>>) ELSE @,
        !.methods = IF m[4] \/ m[5] THEN @ ELSE Append(@, <<m[1], m[2]>>)]

\* if body_item.name == '__init__': fields = self._extract_fields_from_init(body_item)
SetInitFields(acc, body_item) ==
    IF body_item.name = S_init
    THEN [acc EXCEPT !.fields = _extract_fields_from_init(body_item)]
    ELSE acc

\* The lists of _process_class_def after the member n.node during whose
\* extraction an exception is raised: "helper" inside _process_method_def or
\* _process_attributes, which catch it and return ('+', '<name>()', False,
\* False, False) and []; "statement" in the loop's own try block, whose
\* handler is 'continue'.  No handler records a diagnostic.
FaultyMemberStep(acc, n) ==
    IF n.where = "helper" /\ n.node.type \in {"FunctionDef", "AsyncFunctionDef"}
    THEN (IF n.node.type = "FunctionDef" THEN SetInitFields(
             AddMethod(acc, <<<<"+">>, n.node.name \o <<"(", ")">>, FALSE, FALSE, FALSE>>),
             n.node)
          ELSE AddMethod(acc, <<<<"+">>, n.node.name \o <<"(", ")">>, FALSE, FALSE, FALSE>>))
    ELSE acc

\* One iteration of the loop of _process_class_def over node.body; acc holds
\* the loop's lists and counter.
ClassBodyStep(acc, body_item, class_body) ==
    IF body_item.type = "Faulty"
    THEN FaultyMemberStep(acc, body_item)
    ELSE IF body_item.type = "FunctionDef"
    THEN SetInitFields(
            IF _is_property_method(body_item)
            THEN [acc EXCEPT !.properties =
                     Append(@, _process_property_method(body_item, class_body))]
            ELSE IF ~_is_property_setter_or_deleter(body_item)
            THEN AddMethod(acc, _process_method_def(body_item))
            ELSE acc,
            body_item)
    ELSE IF body_item.type = "AsyncFunctionDef"
    THEN AddMethod(acc, _process_method_def(body_item))
    ELSE IF body_item.type = "AnnAssign"
    THEN [acc EXCEPT !.attributes = @ \o _process_attributes(body_item)]
    ELSE acc    \* nested classes and every other statement are skipped

RECURSIVE ClassBodyLoop(_, _, _)
ClassBodyLoop(acc, rest, class_body) ==
    IF rest = <<>> THEN acc
    ELSE ClassBodyLoop(ClassBodyStep(acc, Head(rest), class_body), Tail(rest), class_body)

\* The tuple _process_class_def returns: (class_name, fields, attributes,
\* static_methods, methods, properties, abstract_method_count)
ClassTuple(class_name, acc) ==
    <<class_name, acc.fields, acc.attributes, acc.static_methods, acc.methods,
      acc.properties, acc.abstract_method_count>>

\* PythonParser._process_class_def
_process_class_def(node) ==
    ClassTuple(_format_name_with_decorators(node.name, _extract_decorators(node)),
               ClassBodyLoop([methods |-> <<>>, fields |-> <<>>, attributes |-> <<>>,
                              properties |-> <<>>, abstract_method_count |-> 0,
                              static_methods |-> <<>>],
                             node.body, node.body))

\* PythonParser._process_function_def
_process_function_def(node) ==
    LET function_name == _format_name_with_decorators(node.name, _extract_decorators(node))
        prefix == _visibility(node.name)[1]
        args == [i \in 1..Len(node.args) |->
                    IF node.args[i].annotation.type # "None"
                    THEN node.args[i].arg \o <<":", " ">>
                         \o _get_type_annotation(node.args[i].annotation)
                    ELSE node.args[i].arg]
    IN  prefix \o <<" ">> \o function_name \o <<"(">> \o Join(<<",", " ">>, args) \o <<")">>

\* PythonParser._process_global_vars
_process_global_vars(node) ==
    LET names == SelectSeq(node.targets, LAMBDA target : target.type = "Name")
    IN  [i \in 1..Len(names) |-> <<_visibility(names[i].id)[1], names[i].id>>]

\* The loop of _is_decorator_function over node.body, from item i on.
RECURSIVE DecoratorBodyScan(_, _)
DecoratorBodyScan(node, i) ==
    IF i > Len(node.body) THEN FALSE
    ELSE LET item == node.body[i]
             param_names == ArgNames(node)
         IN  IF item.type = "Return" /\ item.value.type = "Name"
                /\ Contains(param_names, item.value.id)
             THEN FALSE
             ELSE IF item.type = "Return" /\ item.value.type = "Call"
                     /\ item.value.func.type = "Name"
             THEN Contains(param_names, item.value.func.id)
             ELSE IF item.type = "FunctionDef" THEN TRUE
             ELSE DecoratorBodyScan(node, i + 1)

\* PythonParser._is_decorator_function
_is_decorator_function(node) ==
    IF HasDecorators(node) THEN TRUE
    ELSE IF node.body = <<>> THEN FALSE
    ELSE DecoratorBodyScan(node, 1)

(***************************************************************************)
(* sorted(list(set(members)), key=lambda x: x[1]).  The sort is stable, so *)
(* members with equal keys keep the iteration order of the set, which the  *)
(* interpreter's hash seed fixes for the whole process: seed 0 iterates    *)
(* equal-key members by ascending prefix, any other seed by descending.    *)
(***************************************************************************)
MemberBefore(a, b, seed) ==
    \/ StrLess(a[2], b[2])
    \/ a[2] = b[2] /\ (IF seed = 0 THEN StrLess(a[1], b[1]) ELSE StrLess(b[1], a[1]))

RECURSIVE InsertMember(_, _, _)
InsertMember(sorted, x, seed) ==
    IF sorted = <<>> THEN <<x>>
    ELSE IF x = Head(sorted) THEN sorted
    ELSE IF MemberBefore(x, Head(sorted), seed) THEN <<x>> \o sorted
    ELSE <<Head(sorted)>> \o InsertMember(Tail(sorted), x, seed)

RECURSIVE SortedSetBy(_, _)
SortedSetBy(members, seed) ==
    IF members = <<>> THEN <<>>
    ELSE InsertMember(SortedSetBy(Tail(members), seed), Head(members), seed)

SortedSet(members) == SortedSetBy(members, hashseed)

(***************************************************************************)
(* PythonParser.parse_file.  A file is a record: name (its path relative   *)
(* to the directory, without the .py suffix, which also stands for         *)
(* str(path)), exists, readable, utf8, syntax_ok (whether ast.parse        *)
(* accepts the content), body (the module's statements when it does) and   *)
(* lines (content.split('\n')).  A diagnostic is a record of the message's *)
(* fixed text, the file and the exception text.                            *)
(***************************************************************************)
Message(text, file_path, e) == [msg |-> text, file |-> file_path.name, e |-> e]

EmptyResult == [classes |-> <<>>, functions |-> <<>>, global_vars |-> <<>>, class_bases |-> <<>>]

\* The class name and the bases _parse_file_partially reads off a class line.
ClassLineName(line) ==
    Strip(Split(Split(Split(line, S_class_sp)[2], <<"(">>)[1], <<":">>)[1])

StripAll(parts) == [k \in 1..Len(parts) |-> Strip(parts[k])]

ClassLineBases(line) ==
    IF Find(line, <<"(">>, 1) # 0 /\ Find(line, <<")">>, 1) # 0
    THEN SelectSeq(StripAll(Split(Split(Split(line, <<"(">>)[2], <<")">>)[1], <<",">>)),
                   LAMBDA base : base # <<>>)
    ELSE <<>>

\* ast.parse(class_text) in try_parse_class_block, for the block shapes the
\* model uses: a block parses on its own when it is the single line
\* 'class <name>[(<bases>)]: pass' with identifiers as bases.
OneLineClass(name, base_names) ==
    ClassDef(name, [i \in 1..Len(base_names) |-> Name(base_names[i])], <<>>, <<Pass>>)

ast_parse_class_text(class_lines) ==
    IF /\ Len(class_lines) = 1
       /\ Len(Split(class_lines[1], <<":">>)) = 2
       /\ Strip(Split(class_lines[1], <<":">>)[2]) = S_pass
    THEN [ok |-> TRUE,
          body |-> <<OneLineClass(ClassLineName(class_lines[1]),
                                  ClassLineBases(class_lines[1]))>>]
    ELSE [ok |-> FALSE, body |-> <<>>]

\* try_parse_class_block of _parse_file_partially: a tuple of seven values
\* on both of its return paths.
try_parse_class_block(class_lines, class_name) ==
    LET class_node == ast_parse_class_text(class_lines)
        found == SelectSeq(class_node.body,
                           LAMBDA node : node.type = "ClassDef" /\ node.name = class_name)
    IN  IF class_node.ok /\ found # <<>>
        THEN _process_class_def(found[1])
        ELSE <<<<>>, <<>>, <<>>, <<>>, <<>>, <<>>, 0>>

\* The inner loop of _parse_file_partially that collects the lines of a class
\* while brace_count > 0; i is the index of the next line (from 1).
RECURSIVE CollectClassLines(_, _, _, _)
CollectClassLines(lines, i, brace_count, class_lines) ==
    IF i <= Len(lines) /\ brace_count > 0
    THEN CollectClassLines(lines, i + 1,
                           brace_count + Count(lines[i], "{") - Count(lines[i], "}"),
                           Append(class_lines, lines[i]))
    ELSE [i |-> i, class_lines |-> class_lines]

\* The entry _parse_file_partially appends to classes for the six values
\* unpacked from try_parse_class_block's result.
PartialClassEntry(class_name, unpacked, bases) ==
    <<class_name, SortedSet(unpacked[1]), SortedSet(unpacked[2]), SortedSet(unpacked[3]),
      SortedSet(unpacked[4]), SortedSet(unpacked[5]), "class", bases>>

\* The unpacking with a target list as long as the tuple returned: nothing
\* is raised.
UnpackSixAccepts(result) == ""

\* 'fields, attributes, static_methods, methods, properties,
\* abstract_method_count = try_parse_class_block(...)': the exception the
\* unpacking of result raises, "" when result holds six values.
UnpackSix(result) ==
    IF Len(result) > 6 THEN "too many values to unpack (expected 6)"
    ELSE IF Len(result) < 6 THEN "not enough values to unpack"
    ELSE ""

\* The lists of _parse_file_partially after a class line: result is what
\* try_parse_class_block returned for the block.
WithClass(acc, class_name, bases, result) ==
    [acc EXCEPT !.class_bases = Put(@, class_name, bases),
                !.classes = Append(@, PartialClassEntry(class_name, result, bases))]

\* The scan loop of _parse_file_partially from line i (from 1) on; the
\* RECURSIVE operators below are its branches.  The result is either the
\* exception that leaves the loop or the lists built.
RECURSIVE PartialScan(_, _, _)
RECURSIVE ScanClass(_, _, _, _, _)
RECURSIVE ScanLine(_, _, _, _)
ScanClass(lines, block, acc, line, result) ==
    IF UnpackSix(result) # ""
    THEN [raised |-> TRUE, e |-> UnpackSix(result), val |-> acc]
    ELSE PartialScan(lines, block.i + 1,
                     WithClass(acc, ClassLineName(line), ClassLineBases(line), result))

ScanLine(lines, i, acc, line) ==
    IF StartsWith(line, S_class_sp)
    THEN ScanClass(lines,
                   CollectClassLines(lines, i + 1, Count(line, "{") - Count(line, "}"), <<line>>),
                   acc, line,
                   try_parse_class_block(
                       CollectClassLines(lines, i + 1, Count(line, "{") - Count(line, "}"),
                                         <<line>>).class_lines,
                       ClassLineName(line)))
    ELSE IF StartsWith(line, S_def_sp)
    THEN PartialScan(lines, i + 1,
            [acc EXCEPT !.functions =
                Append(@, <<"+", " ">> \o Strip(Split(Split(line, S_def_sp)[2], <<"(">>)[1])
                          \o <<"(", ")">>)])
    ELSE PartialScan(lines, i + 1, acc)

PartialScan(lines, i, acc) ==
    IF i > Len(lines) THEN [raised |-> FALSE, e |-> "", val |-> acc]
    ELSE ScanLine(lines, i, acc, Strip(lines[i]))

\* PythonParser._parse_file_partially
_parse_file_partially(content) == PartialScan(content, 1, EmptyResult)

\* The bases with the last name of an attribute base (m.B gives B) kept too.
NamedBasesKeepsAttributes(n) ==
    [i \in 1..Len(SelectSeq(n.bases, LAMBDA base : base.type \in {"Name", "Attribute"})) |->
        LET base == SelectSeq(n.bases, LAMBDA b : b.type \in {"Name", "Attribute"})[i]
        IN  IF base.type = "Name" THEN base.id ELSE base.attr]

\* [base.id for base in n.bases if isinstance(base, ast.Name)]
NamedBases(n) ==
    [i \in 1..Len(SelectSeq(n.bases, LAMBDA base : base.type = "Name")) |->
        SelectSeq(n.bases, LAMBDA base : base.type = "Name")[i].id]

\* The class_type hard-coded as _parse_file_partially has it.
ClassKindAlwaysClass(c, bases, decorators) == "class"

\* The class_type parse_file computes for the tuple c of _process_class_def.
ClassKind(c, bases, decorators) ==
    _determine_class_type(Len(c[2]) > 0, c[7], Len(c[4]) + Len(c[5]), Some(bases), Some(decorators))

\* The entry parse_file appends to classes.
ClassEntry(c, class_type, bases) ==
    <<c[1], SortedSet(c[2]), SortedSet(c[3]), SortedSet(c[4]), SortedSet(c[5]),
      SortedSet(c[6]), class_type, bases>>

\* The lists of parse_file after the class n, whose _process_class_def tuple is c.
WithParsedClass(acc, n, c) ==
    [acc EXCEPT
        !.class_bases = Put(@, c[1], NamedBases(n)),
        !.classes = Append(@, ClassEntry(c, ClassKind(c, NamedBases(n), _extract_decorators(n)),
                                         NamedBases(n)))]

\* A top-level statement n.node during whose extraction an exception is
\* raised, and where: "helper" inside the helper the statement is passed to
\* (_process_class_def, _process_function_def, _process_global_vars),
\* "statement" in parse_file's own try block before anything is stored,
\* "append" (classes) in 'classes.append((...))', after
\* 'class_bases[class_name] = bases'.
Faulty(node, where) == [type |-> "Faulty", node |-> node, where |-> where]

\* The lists of parse_file after the statement n whose extraction raised: the
\* helpers catch what is raised inside them and return 'UnknownClass' with
\* empty lists, the signature '+ <name>()' and no variables; the handlers
\* of parse_file skip the statement.
FaultyStep(acc, n) ==
    IF n.where = "helper"
    THEN IF n.node.type = "ClassDef"
         THEN WithParsedClass(acc, n.node,
                              <<S_UnknownClass, <<>>, <<>>, <<>>, <<>>, <<>>, 0>>)
         ELSE IF n.node.type \in {"FunctionDef", "AsyncFunctionDef"}
         THEN IF ~_is_decorator_function(n.node)
              THEN [acc EXCEPT !.functions =
                       Append(@, <<"+", " ">> \o n.node.name \o <<"(", ")">>)]
              ELSE acc
         ELSE acc
    ELSE IF n.where = "append" /\ n.node.type = "ClassDef"
    THEN [acc EXCEPT !.class_bases = Put(@, _process_class_def(n.node)[1], NamedBases(n.node))]
    ELSE acc

\* The messages the handlers inside the loop of parse_file record, in order.
RECURSIVE StatementDiagnostics(_, _)
StatementDiagnostics(file_path, body) ==
    IF body = <<>> THEN <<>>
    ELSE (IF Head(body).type = "Faulty" /\ Head(body).where # "helper"
          THEN <<Message(IF Head(body).node.type = "ClassDef"
                         THEN "Error processing class in"
                         ELSE IF Head(body).node.type = "FunctionDef"
                         THEN "Error processing function in"
                         ELSE IF Head(body).node.type = "AsyncFunctionDef"
                         THEN "Error processing async function in"
                         ELSE "Error processing global variables in",
                         file_path, "")>>
          ELSE <<>>)
         \o StatementDiagnostics(file_path, Tail(body))

\* self.errors.append(error_msg) and
\* self.files_with_errors[str(file_path)].append(error_msg) for each message.
WithDiagnostics(result, diagnostics, file_path, errs, fwe) ==
    [raised |-> FALSE, result |-> result,
     errors |-> errs \o diagnostics,
     files_with_errors |->
         IF diagnostics = <<>> THEN fwe
         ELSE Put(fwe, file_path.name,
                  (IF HasKey(fwe, file_path.name) THEN Get(fwe, file_path.name) ELSE <<>>)
                  \o diagnostics)]

\* One iteration of the loop of parse_file over node.body.
TopLevelStep(acc, n) ==
    IF n.type = "Faulty"
    THEN FaultyStep(acc, n)
    ELSE IF n.type = "ClassDef"
    THEN WithParsedClass(acc, n, _process_class_def(n))
    ELSE IF n.type \in {"FunctionDef", "AsyncFunctionDef"}
    THEN IF ~_is_decorator_function(n)
         THEN [acc EXCEPT !.functions = Append(@, _process_function_def(n))]
         ELSE acc
    ELSE IF n.type = "Assign"
    THEN [acc EXCEPT !.global_vars = @ \o _process_global_vars(n)]
    ELSE acc

RECURSIVE TopLevelLoop(_, _)
TopLevelLoop(acc, body) ==
    IF body = <<>> THEN acc
    ELSE TopLevelLoop(TopLevelStep(acc, Head(body)), Tail(body))

\* parse_file without the handler 'except Exception': the exception leaves
\* the call.
UnexpectedErrorPropagates(file_path, e, errs, fwe) ==
    [raised |-> TRUE, result |-> EmptyResult, errors |-> errs, files_with_errors |-> fwe]

\* What parse_file does with an exception raised inside its first try
\* statement (here: by _parse_file_partially, called from the handler of
\* SyntaxError): the handler 'except Exception' records it and returns the
\* empty result.
UnexpectedError(file_path, e, errs, fwe) ==
    LET error_msg == Message("Unexpected error reading", file_path, e)
    IN  [raised |-> FALSE, result |-> EmptyResult,
         errors |-> Append(errs, error_msg),
         files_with_errors |-> Put(fwe, file_path.name, <<error_msg>>)]

\* The early returns of parse_file: the message is recorded and the empty
\* result returned.
EarlyReturn(text, file_path, e, errs, fwe) ==
    LET error_msg == Message(text, file_path, e)
    IN  [raised |-> FALSE, result |-> EmptyResult,
         errors |-> Append(errs, error_msg),
         files_with_errors |-> Put(fwe, file_path.name, <<error_msg>>)]

\* The handler of SyntaxError in parse_file, once the message is recorded
\* (errs1, fwe1) and _parse_file_partially has ended with partial.
AfterPartial(file_path, partial, errs1, fwe1) ==
    IF partial.raised
    THEN UnexpectedError(file_path, partial.e, errs1, fwe1)
    ELSE [raised |-> FALSE, result |-> partial.val,
          errors |-> errs1, files_with_errors |-> fwe1]

\* The handler of SyntaxError in parse_file.
SyntaxErrorPath(file_path, errs, fwe) ==
    AfterPartial(file_path, _parse_file_partially(file_path.lines),
                 Append(errs, Message("Syntax error in", file_path, "invalid syntax")),
                 Put(fwe, file_path.name,
                     <<Message("Syntax error in", file_path, "invalid syntax")>>))

\* PythonParser.parse_file on a parser whose errors and files_with_errors
\* are errs and fwe: the returned dictionary and the parser's new lists;
\* raised tells whether an exception leaves the call.
parse_file(file_path, errs, fwe) ==
    IF ~file_path.exists
    THEN EarlyReturn("File not found:", file_path, "", errs, fwe)
    ELSE IF ~file_path.readable
    THEN EarlyReturn("Permission denied reading file:", file_path, "", errs, fwe)
    ELSE IF ~file_path.utf8
    THEN EarlyReturn("Encoding error in", file_path, "invalid start byte", errs, fwe)
    ELSE IF ~file_path.syntax_ok
    THEN SyntaxErrorPath(file_path, errs, fwe)
    ELSE WithDiagnostics(TopLevelLoop(EmptyResult, file_path.body),
                         StatementDiagnostics(file_path, file_path.body),
                         file_path, errs, fwe)

(***************************************************************************)
(* FileFilter.should_ignore                                                *)
(***************************************************************************)
\* Path.name: the last component of the path
Basename(name) == Split(name, <<"/">>)[Len(Split(name, <<"/">>))]

should_ignore(file_path) ==
    IF StartsWith(Basename(file_path.name), <<".">>) THEN TRUE
    ELSE IF ~use_gitignore THEN FALSE
    ELSE file_path.gitignored   \* _should_ignore_pathspec / _should_ignore_simple

(***************************************************************************)
(* UMLGenerator.generate_uml, in three steps: the scan of the directory,   *)
(* one iteration of the loop over pathlist, and the end of the call.       *)
(***************************************************************************)
\* str(relative_path).replace('/', '.')
PackageName(name) == Join(<<".">>, Split(name, <<"/">>))

ERROR_COLOR == "#FF0000"

NEUTRAL_COLOR == "#F0F0FF"

\* Whether generate_uml finds a diagnostic of the file in the parser's dictionary fwe.
FileHasErrors(path, fwe) == HasKey(fwe, path.name)

\* The lines generate_uml appends for one parsed file.
PackageBlock(path, data, fwe) ==
    (IF FileHasErrors(path, fwe)
     THEN <<[k |-> "package", name |-> PackageName(path.name), color |-> ERROR_COLOR],
            [k |-> "note_header"]>>
          \o [i \in 1..Len(Get(fwe, path.name)) |->
                 [k |-> "note", error |-> Get(fwe, path.name)[i]]]
     ELSE <<[k |-> "package", name |-> PackageName(path.name), color |-> NEUTRAL_COLOR]>>)
    \o (IF data.global_vars # <<>>
        THEN <<[k |-> "globals_open"]>> \o MemberLines(data.global_vars)
             \o <<[k |-> "class_close"]>>
        ELSE <<>>)
    \o [i \in 1..Len(data.functions) |-> [k |-> "function", text |-> data.functions[i]]]
    \o Concat([i \in 1..Len(data.classes) |-> _format_class_info(data.classes[i])])
    \o <<[k |-> "package_close"]>>

\* UMLGenerator._add_inheritance_relations
_add_inheritance_relations(class_bases) ==
    Concat([i \in 1..Len(class_bases) |->
               [j \in 1..Len(class_bases[i][2]) |->
                   [k |-> "inherit", base |-> class_bases[i][2][j],
                    name |-> class_bases[i][1]]]])

EmptyDirectoryDocument == <<[k |-> "@startuml"], [k |-> "note_empty"], [k |-> "@enduml"]>>

\* pathlist after the gitignore filter
FilteredPathlist ==
    IF use_gitignore
    THEN SelectSeq(directory, LAMBDA path : ~should_ignore(path))
    ELSE directory

\* The start of a generate_uml call up to the loop.
GenerateUmlScan ==
    /\ pc = "idle"
    /\ Len(returned) < MaxCalls
    /\ pathlist' = FilteredPathlist
    /\ IF pathlist' = <<>>
       THEN /\ returned' = Append(returned, EmptyDirectoryDocument)
            /\ UNCHANGED <<pc, idx>>
       ELSE /\ pc' = "loop"
            /\ idx' = 1
            /\ UNCHANGED returned
    /\ UNCHANGED <<directory, use_gitignore, hashseed, parsed_data, uml, all_class_bases,
                   gen_errors, gen_files_with_errors, errors, files_with_errors,
                   raised, report, an_errors, an_files_with_errors, call>>

\* The body of the loop once parse_file has ended with p.
ProcessParsed(path, p) ==
    /\ errors' = p.errors
    /\ files_with_errors' = p.files_with_errors
    /\ IF p.raised
       THEN \* except Exception: the file is reported and skipped
            /\ gen_errors' = Append(gen_errors, Message("Error processing file", path, ""))
            /\ gen_files_with_errors' =
                   Put(gen_files_with_errors, path.name,
                       (IF HasKey(gen_files_with_errors, path.name)
                        THEN Get(gen_files_with_errors, path.name)
                        ELSE <<>>) \o <<Message("Error processing file", path, "")>>)
            /\ UNCHANGED <<parsed_data, uml, all_class_bases>>
       ELSE /\ parsed_data' = p.result
            /\ gen_errors' = gen_errors \o p.errors
            /\ gen_files_with_errors' = Update(gen_files_with_errors, p.files_with_errors)
            /\ all_class_bases' = Update(all_class_bases, p.result.class_bases)
            /\ uml' = uml \o PackageBlock(path, p.result, p.files_with_errors)

\* One iteration of 'for path in pathlist'.
GenerateUmlFile ==
    /\ pc = "loop"
    /\ idx <= Len(pathlist)
    /\ ProcessParsed(pathlist[idx], parse_file(pathlist[idx], errors, files_with_errors))
    /\ idx' = idx + 1
    /\ UNCHANGED <<directory, use_gitignore, hashseed, pc, pathlist, returned, raised,
                   report, an_errors, an_files_with_errors, call>>

\* After the loop: the inheritance lines, the end marker and the return.
GenerateUmlFinish ==
    /\ pc = "loop"
    /\ idx > Len(pathlist)
    /\ uml' = uml \o _add_inheritance_relations(all_class_bases) \o <<[k |-> "@enduml"]>>
    /\ returned' = Append(returned, uml')
    /\ pc' = "idle"
    /\ UNCHANGED <<directory, use_gitignore, hashseed, pathlist, idx, parsed_data,
                   all_class_bases, gen_errors, gen_files_with_errors, errors,
                   files_with_errors, raised, report, an_errors,
                   an_files_with_errors, call>>

(***************************************************************************)
(* FileAnalyzer.describe_file                                              *)
(***************************************************************************)
FORMATS == {"text", "json", "yaml"}

\* FileAnalyzer._extract_documentation; "" also stands for no documentation
_extract_documentation(node) ==
    IF node.body # <<>> /\ node.body[1].type = "Expr"
       /\ node.body[1].value.type = "Constant"
    THEN Strip(node.body[1].value.value)
    ELSE <<>>

\* ast.walk(tree): the statements of the module and those nested in them
RECURSIVE Walk(_)
Walk(body) ==
    body \o Concat([i \in 1..Len(body) |->
                      IF body[i].type \in {"ClassDef", "FunctionDef", "AsyncFunctionDef"}
                      THEN Walk(body[i].body) ELSE <<>>])

\* 'public' if prefix.startswith('+') else 'private' if prefix.startswith('-')
\* else 'protected'
VisibilityLabel(prefix) ==
    IF StartsWith(prefix, <<"+">>) THEN "public"
    ELSE IF StartsWith(prefix, <<"-">>) THEN "private"
    ELSE "protected"

\* The documentation describe_file finds for a top-level function signature.
FunctionDocumentation(file_path, func_name, include_docs) ==
    LET found == SelectSeq(Walk(file_path.body),
                           LAMBDA node : /\ node.type \in {"FunctionDef", "AsyncFunctionDef"}
                                         /\ node.name = func_name)
    IN  IF include_docs /\ file_path.readable /\ file_path.utf8 /\ file_path.syntax_ok
           /\ found # <<>>
        THEN Some(_extract_documentation(found[1]))
        ELSE None

\* The entry of describe_file's data for one element of parsed_data["classes"],
\* once 'class_name, fields, attributes, static_methods, methods, class_type,
\* bases = class_info' has unpacked seven values.
ClassData(class_info) ==
    [name |-> class_info[1], type |-> class_info[6], bases |-> class_info[7],
     fields |-> [i \in 1..Len(class_info[2]) |->
                    [name |-> Strip(Split(class_info[2][i][2], <<":">>)[1]),
                     visibility |-> VisibilityLabel(class_info[2][i][1])]],
     methods |-> [i \in 1..Len(class_info[5] \o class_info[4]) |->
                    [name |-> Split((class_info[5] \o class_info[4])[i][2], <<"(">>)[1],
                     visibility |-> VisibilityLabel((class_info[5] \o class_info[4])[i][1]),
                     signature |-> (class_info[5] \o class_info[4])[i][2]]]]

\* _get_file_summary with the number of classes given as the number of
\* functions too.
_get_file_summary_counts_classes_twice(file_path, classes, functions, variables) ==
    [lines |-> IF file_path.readable /\ file_path.utf8
               THEN IF file_path.lines[Len(file_path.lines)] = <<>>
                    THEN Len(file_path.lines) - 1 ELSE Len(file_path.lines)
               ELSE 0,
     classes |-> Len(classes), functions |-> Len(classes), variables |-> Len(variables)]

\* FileAnalyzer._get_file_summary
_get_file_summary(file_path, classes, functions, variables) ==
    [lines |-> IF file_path.readable /\ file_path.utf8
               THEN \* len(file.readlines())
                    IF file_path.lines[Len(file_path.lines)] = <<>>
                    THEN Len(file_path.lines) - 1 ELSE Len(file_path.lines)
               ELSE 0,
     classes |-> Len(classes), functions |-> Len(functions), variables |-> Len(variables)]

\* The lines _format_describe_text writes for one class of data['classes'].
TextClassLines(class_data) ==
    <<[k |-> "class", name |-> class_data.name, type |-> class_data.type]>>
    \o (IF class_data.bases # <<>>
        THEN <<[k |-> "Bases:", bases |-> class_data.bases]>> ELSE <<>>)
    \o (IF class_data.methods # <<>>
        THEN <<[k |-> "Methods:"]>>
             \o [i \in 1..Len(class_data.methods) |->
                    [k |-> "method", visibility |-> class_data.methods[i].visibility,
                     signature |-> class_data.methods[i].signature]]
        ELSE <<>>)
    \o (IF class_data.fields # <<>>
        THEN <<[k |-> "Fields:"]>>
             \o [i \in 1..Len(class_data.fields) |->
                    [k |-> "field", visibility |-> class_data.fields[i].visibility,
                     name |-> class_data.fields[i].name]]
        ELSE <<>>)
    \o <<[k |-> ""]>>

\* The lines _format_describe_text writes for one function of
\* data['functions']: the Documentation line only 'if func['documentation']'.
TextFunctionLines(func) ==
    <<[k |-> "function", visibility |-> func.visibility, signature |-> func.signature]>>
    \o (IF func.documentation # None /\ func.documentation.val # <<>>
        THEN <<[k |-> "Documentation:", text |-> func.documentation.val]>> ELSE <<>>)

\* FileAnalyzer._format_describe_text: the lines joined by "\n".
_format_describe_text(data) ==
    <<[k |-> "File:", file |-> data.file],
      [k |-> "Summary:", lines |-> data.summary.lines, classes |-> data.summary.classes,
       functions |-> data.summary.functions, variables |-> data.summary.variables],
      [k |-> ""]>>
    \o (IF data.classes # <<>>
        THEN <<[k |-> "Classes:"]>>
             \o Concat([i \in 1..Len(data.classes) |-> TextClassLines(data.classes[i])])
        ELSE <<>>)
    \o (IF data.functions # <<>>
        THEN <<[k |-> "Functions:"]>>
             \o Concat([i \in 1..Len(data.functions) |-> TextFunctionLines(data.functions[i])])
             \o <<[k |-> ""]>>
        ELSE <<>>)
    \o (IF data.variables # <<>>
        THEN <<[k |-> "Variables:"]>>
             \o [i \in 1..Len(data.variables) |->
                    [k |-> "variable", visibility |-> data.variables[i].visibility,
                     name |-> data.variables[i].name]]
             \o <<[k |-> ""]>>
        ELSE <<>>)

\* FileAnalyzer._format_describe_json: json.dumps(data, indent=2,
\* ensure_ascii=False), the JSON object that json.loads reads back as data.
_format_describe_json(data) == [object |-> data]

\* FileAnalyzer._format_describe_yaml: yaml.dump(data, ...), the YAML mapping
\* that yaml.safe_load reads back as data.
_format_describe_yaml(data) == [mapping |-> data]

\* FileAnalyzer._format_output: the rendering names its format and holds the
\* record it was built from.
_format_output(data, format) ==
    [kind |-> format, e |-> "", data |-> Some(data),
     rendering |-> IF format = "text" THEN _format_describe_text(data)
                   ELSE IF format = "json" THEN _format_describe_json(data)
                   ELSE _format_describe_yaml(data)]

ErrorString(e) == [kind |-> "Error:", e |-> e, data |-> None]

\* The body of describe_file's try statement after the file was parsed.
DescribeParsed(file_path, parsed, format, include_docs) ==
    LET classes == parsed.classes
        functions == parsed.functions
        global_vars == parsed.global_vars
        data == [file |-> file_path.name,
                 summary |-> _get_file_summary(file_path, classes, functions, global_vars),
                 classes |-> [i \in 1..Len(classes) |-> ClassData(classes[i])],
                 functions |-> [i \in 1..Len(functions) |->
                     [name |-> Split(functions[i], <<"(">>)[1],
                      visibility |-> "public",
                      signature |-> functions[i],
                      documentation |->
                          FunctionDocumentation(file_path, Split(functions[i], <<"(">>)[1],
                                                include_docs)]],
                 variables |-> [i \in 1..Len(global_vars) |->
                     [name |-> global_vars[i][2],
                      visibility |-> VisibilityLabel(global_vars[i][1])]]]
    IN  IF \E i \in 1..Len(classes) : Len(classes[i]) # 7
        THEN \* the unpacking of class_info raises ValueError, caught by
             \* 'except Exception as e: return f"Error: {str(e)}"'
             ErrorString("too many values to unpack (expected 7)")
        ELSE _format_output(data, format)

\* describe_file once parse_file has ended with p.
AfterParse(file_path, p, format, include_docs) ==
    [raised |-> FALSE,
     output |-> IF p.raised THEN ErrorString("parse_file raised")
                ELSE DescribeParsed(file_path, p.result, format, include_docs),
     errors |-> p.errors, files_with_errors |-> p.files_with_errors, parsed |-> TRUE]

\* describe_file with the format looked at only after the file was parsed.
describe_file_checks_format_late(file_path, format, include_docs, errs, fwe) ==
    IF ~file_path.exists
    THEN [raised |-> format \notin FORMATS, output |-> ErrorString("File not found"),
          errors |-> errs, files_with_errors |-> fwe, parsed |-> FALSE]
    ELSE [AfterParse(file_path, parse_file(file_path, errs, fwe), format, include_docs)
             EXCEPT !.raised = format \notin FORMATS]

\* FileAnalyzer.describe_file on an analyzer whose parser holds errs and fwe:
\* what the call returns, whether it raises, and the parser's new lists.
describe_file(file_path, format, include_docs, errs, fwe) ==
    IF format \notin FORMATS
    THEN [raised |-> TRUE, output |-> ErrorString("Unsupported format"),
          errors |-> errs, files_with_errors |-> fwe, parsed |-> FALSE]
    ELSE IF ~file_path.exists
    THEN [raised |-> FALSE, output |-> ErrorString("File not found"),
          errors |-> errs, files_with_errors |-> fwe, parsed |-> FALSE]
    ELSE AfterParse(file_path, parse_file(file_path, errs, fwe), format, include_docs)

(***************************************************************************)
(* The source files the model analyses.  body is what ast.parse returns    *)
(* for the text shown, lines the text itself.                              *)
(***************************************************************************)
\* A class with one field and one method (parses).
\*     class A:
\*         def __init__(self):
\*             self.x = 1
\*         def m(self):
\*             pass
SRC_FieldAndMethod ==
    [readable |-> TRUE, utf8 |-> TRUE, syntax_ok |-> TRUE,
     body |->
        <<ClassDef(<<"A">>, <<>>, <<>>, <<FunctionDef(<<"_", "_", "i", "n", "i", "t", "_", "_">>,
        <<Arg(<<"s", "e", "l", "f">>, NoExpr)>>, <<>>, NoExpr, <<Assign(<<Attribute(Name(<<"s", "e",
        "l", "f">>), <<"x">>)>>)>>), FunctionDef(<<"m">>, <<Arg(<<"s", "e", "l", "f">>, NoExpr)>>,
        <<>>, NoExpr, <<Pass>>)>>)>>,
     lines |->
        <<<<"c", "l", "a", "s", "s", " ", "A", ":">>, <<" ", " ", " ", " ", "d", "e", "f", " ", "_",
        "_", "i", "n", "i", "t", "_", "_", "(", "s", "e", "l", "f", ")", ":">>, <<" ", " ", " ", " ",
        " ", " ", " ", " ", "s", "e", "l", "f", ".", "x", " ", "=", " ", "1">>, <<" ", " ", " ", " ",
        "d", "e", "f", " ", "m", "(", "s", "e", "l", "f", ")", ":">>, <<" ", " ", " ", " ", " ", " ",
        " ", " ", "p", "a", "s", "s">>, <<>>>>]

\* A derived class, a function with a docstring and a global (parses).
\*     class B(A):
\*         pass
\*     def f(a):
\*         " d "
\*         return a
\*     y = 1
SRC_FunctionAndGlobal ==
    [readable |-> TRUE, utf8 |-> TRUE, syntax_ok |-> TRUE,
     body |->
        <<ClassDef(<<"B">>, <<Name(<<"A">>)>>, <<>>, <<Pass>>), FunctionDef(<<"f">>, <<Arg(<<"a">>,
        NoExpr)>>, <<>>, NoExpr, <<Expr(Constant(<<" ", "d", " ">>)), Return(Name(<<"a">>))>>),
        Assign(<<Name(<<"y">>)>>)>>,
     lines |->
        <<<<"c", "l", "a", "s", "s", " ", "B", "(", "A", ")", ":">>, <<" ", " ", " ", " ", "p", "a",
        "s", "s">>, <<"d", "e", "f", " ", "f", "(", "a", ")", ":">>, <<" ", " ", " ", " ", "\"", " ",
        "d", " ", "\"">>, <<" ", " ", " ", " ", "r", "e", "t", "u", "r", "n", " ", "a">>, <<"y", " ",
        "=", " ", "1">>, <<>>>>]

\* A decorated class with a static attribute and a static method (parses).
\*     @dataclass
\*     class D:
\*         n: int
\*         @staticmethod
\*         def s():
\*             pass
SRC_Dataclass ==
    [readable |-> TRUE, utf8 |-> TRUE, syntax_ok |-> TRUE,
     body |->
        <<ClassDef(<<"D">>, <<>>, <<Name(<<"d", "a", "t", "a", "c", "l", "a", "s", "s">>)>>,
        <<AnnAssign(Name(<<"n">>), Name(<<"i", "n", "t">>)), FunctionDef(<<"s">>, <<>>, <<Name(<<"s",
        "t", "a", "t", "i", "c", "m", "e", "t", "h", "o", "d">>)>>, NoExpr, <<Pass>>)>>)>>,
     lines |->
        <<<<"@", "d", "a", "t", "a", "c", "l", "a", "s", "s">>, <<"c", "l", "a", "s", "s", " ", "D",
        ":">>, <<" ", " ", " ", " ", "n", ":", " ", "i", "n", "t">>, <<" ", " ", " ", " ", "@", "s",
        "t", "a", "t", "i", "c", "m", "e", "t", "h", "o", "d">>, <<" ", " ", " ", " ", "d", "e", "f",
        " ", "s", "(", ")", ":">>, <<" ", " ", " ", " ", " ", " ", " ", " ", "p", "a", "s", "s">>,
        <<>>>>]

\* A well-formed class and a class with a syntax error in its body.
\*     class G:
\*         def m(self):
\*             pass
\*     class E:
\*         def m(self:
\*             pass
SRC_GoodAndBrokenClass ==
    [readable |-> TRUE, utf8 |-> TRUE, syntax_ok |-> FALSE,
     body |->
        <<>>,
     lines |->
        <<<<"c", "l", "a", "s", "s", " ", "G", ":">>, <<" ", " ", " ", " ", "d", "e", "f", " ", "m",
        "(", "s", "e", "l", "f", ")", ":">>, <<" ", " ", " ", " ", " ", " ", " ", " ", "p", "a", "s",
        "s">>, <<"c", "l", "a", "s", "s", " ", "E", ":">>, <<" ", " ", " ", " ", "d", "e", "f", " ",
        "m", "(", "s", "e", "l", "f", ":">>, <<" ", " ", " ", " ", " ", " ", " ", " ", "p", "a", "s",
        "s">>, <<>>>>]

\* A function with a syntax error and no class.
\*     def f(:
\*         pass
SRC_BrokenFunction ==
    [readable |-> TRUE, utf8 |-> TRUE, syntax_ok |-> FALSE,
     body |->
        <<>>,
     lines |->
        <<<<"d", "e", "f", " ", "f", "(", ":">>, <<" ", " ", " ", " ", "p", "a", "s", "s">>, <<>>>>]

\* A file the process may not read.
\*     y = 1
SRC_Unreadable ==
    [readable |-> FALSE, utf8 |-> TRUE, syntax_ok |-> TRUE,
     body |->
        <<Assign(<<Name(<<"y">>)>>)>>,
     lines |->
        <<<<"y", " ", "=", " ", "1">>, <<>>>>]


\* A function with a docstring and a global, no class (parses).
\*     def f(a):
\*         " d "
\*         return a
\*     y = 1
SRC_DocumentedFunction ==
    [readable |-> TRUE, utf8 |-> TRUE, syntax_ok |-> TRUE,
     body |->
        <<FunctionDef(<<"f">>, <<Arg(<<"a">>, NoExpr)>>, <<>>, NoExpr, <<Expr(Constant(<<" ", "d",
        " ">>)), Return(Name(<<"a">>))>>), Assign(<<Name(<<"y">>)>>)>>,
     lines |->
        <<<<"d", "e", "f", " ", "f", "(", "a", ")", ":">>, <<" ", " ", " ", " ", "\"", " ", "d", " ",
        "\"">>, <<" ", " ", " ", " ", "r", "e", "t", "u", "r", "n", " ", "a">>, <<"y", " ", "=", " ",
        "1">>, <<>>>>]

\* A class with an abstract method whose bases are a name, an attribute, a call and a subscript (parses).
\*     class K(A, m.B, f(), G[int]):
\*         @abstractmethod
\*         def m(self):
\*             pass
SRC_AbstractWithBases ==
    [readable |-> TRUE, utf8 |-> TRUE, syntax_ok |-> TRUE,
     body |->
        <<ClassDef(<<"K">>, <<Name(<<"A">>), Attribute(Name(<<"m">>), <<"B">>),
        CallExpr(Name(<<"f">>)), Subscript(Name(<<"G">>), Name(<<"i", "n", "t">>))>>, <<>>,
        <<FunctionDef(<<"m">>, <<Arg(<<"s", "e", "l", "f">>, NoExpr)>>, <<Name(<<"a", "b", "s", "t",
        "r", "a", "c", "t", "m", "e", "t", "h", "o", "d">>)>>, NoExpr, <<Pass>>)>>)>>,
     lines |->
        <<<<"c", "l", "a", "s", "s", " ", "K", "(", "A", ",", " ", "m", ".", "B", ",", " ", "f", "(",
        ")", ",", " ", "G", "[", "i", "n", "t", "]", ")", ":">>, <<" ", " ", " ", " ", "@", "a", "b",
        "s", "t", "r", "a", "c", "t", "m", "e", "t", "h", "o", "d">>, <<" ", " ", " ", " ", "d", "e",
        "f", " ", "m", "(", "s", "e", "l", "f", ")", ":">>, <<" ", " ", " ", " ", " ", " ", " ", " ",
        "p", "a", "s", "s">>, <<>>>>]

\* A function with a syntax error that holds a nested function, no class.
\*     def f(:
\*         def g():
\*             pass
SRC_BrokenNestedFunction ==
    [readable |-> TRUE, utf8 |-> TRUE, syntax_ok |-> FALSE,
     body |->
        <<>>,
     lines |->
        <<<<"d", "e", "f", " ", "f", "(", ":">>, <<" ", " ", " ", " ", "d", "e", "f", " ", "g", "(",
        ")", ":">>, <<" ", " ", " ", " ", " ", " ", " ", " ", "p", "a", "s", "s">>, <<>>>>]

\* A class that defines m twice, abstract and plain (parses).
\*     class A:
\*         @abstractmethod
\*         def m(self):
\*             pass
\*         def m(self):
\*             pass
SRC_TwoMethodsSameName ==
    [readable |-> TRUE, utf8 |-> TRUE, syntax_ok |-> TRUE,
     body |->
        <<ClassDef(<<"A">>, <<>>, <<>>, <<FunctionDef(<<"m">>, <<Arg(<<"s", "e", "l", "f">>, NoExpr)>>,
        <<Name(<<"a", "b", "s", "t", "r", "a", "c", "t", "m", "e", "t", "h", "o", "d">>)>>, NoExpr,
        <<Pass>>), FunctionDef(<<"m">>, <<Arg(<<"s", "e", "l", "f">>, NoExpr)>>, <<>>, NoExpr,
        <<Pass>>)>>)>>,
     lines |->
        <<<<"c", "l", "a", "s", "s", " ", "A", ":">>, <<" ", " ", " ", " ", "@", "a", "b", "s", "t",
        "r", "a", "c", "t", "m", "e", "t", "h", "o", "d">>, <<" ", " ", " ", " ", "d", "e", "f", " ",
        "m", "(", "s", "e", "l", "f", ")", ":">>, <<" ", " ", " ", " ", " ", " ", " ", " ", "p", "a",
        "s", "s">>, <<" ", " ", " ", " ", "d", "e", "f", " ", "m", "(", "s", "e", "l", "f", ")", ":">>,
        <<" ", " ", " ", " ", " ", " ", " ", " ", "p", "a", "s", "s">>, <<>>>>]

\* Globals with a dunder, a protected and a private name, no class (parses).
\*     __all__ = 1
\*     _p = 2
\*     __q = 3
SRC_DunderGlobals ==
    [readable |-> TRUE, utf8 |-> TRUE, syntax_ok |-> TRUE,
     body |->
        <<Assign(<<Name(<<"_", "_", "a", "l", "l", "_", "_">>)>>), Assign(<<Name(<<"_", "p">>)>>),
        Assign(<<Name(<<"_", "_", "q">>)>>)>>,
     lines |->
        <<<<"_", "_", "a", "l", "l", "_", "_", " ", "=", " ", "1">>, <<"_", "p", " ", "=", " ", "2">>,
        <<"_", "_", "q", " ", "=", " ", "3">>, <<>>>>]

Contents == {SRC_TwoMethodsSameName, SRC_DunderGlobals, SRC_BrokenNestedFunction, SRC_DocumentedFunction, SRC_AbstractWithBases, SRC_FieldAndMethod, SRC_FunctionAndGlobal, SRC_Dataclass, SRC_GoodAndBrokenClass, SRC_BrokenFunction, SRC_Unreadable}

\* The paths of the directory: a plain file, a file a .gitignore pattern
\* matches, and a hidden file.
Paths ==
    {[name |-> <<"a">>, gitignored |-> FALSE],
     [name |-> <<"p", "/", "b">>, gitignored |-> TRUE],
     [name |-> <<".", "h">>, gitignored |-> FALSE]}

File(path, content) ==
    [name |-> path.name, gitignored |-> path.gitignored, exists |-> TRUE,
     readable |-> content.readable, utf8 |-> content.utf8,
     syntax_ok |-> content.syntax_ok, body |-> content.body, lines |-> content.lines]

Files == {File(path, content) : path \in Paths, content \in Contents}

\* A path that names no file.
MissingFile ==
    [name |-> <<"n", "o">>, gitignored |-> FALSE, exists |-> FALSE, readable |-> FALSE,
     utf8 |-> TRUE, syntax_ok |-> TRUE, body |-> <<>>, lines |-> <<>>]

\* The directories of at most n files with distinct paths, in any order.
RECURSIVE DirectoriesUpTo(_)
DirectoriesUpTo(n) ==
    IF n = 0 THEN {<<>>}
    ELSE DirectoriesUpTo(n - 1)
         \cup UNION {{Append(d, f) :
                         f \in {g \in Files : ~\E i \in 1..Len(d) : d[i].name = g.name}} :
                     d \in DirectoriesUpTo(n - 1)}

Directories == DirectoriesUpTo(MaxFiles)

(***************************************************************************)
(* The state after UMLGenerator(directory, file_filter) and                *)
(* FileAnalyzer(directory) are constructed.                                *)
(***************************************************************************)
NoReport ==
    [n |-> 0, file |-> <<>>, format |-> "", include_docs |-> FALSE, raised |-> FALSE,
     parsed |-> FALSE, output |-> ErrorString("")]

NoCall == [fn |-> "", args |-> <<>>, done |-> FALSE, ret |-> <<>>]

Constructed ==
    /\ pc = "idle"
    /\ pathlist = <<>>
    /\ idx = 0
    /\ parsed_data = EmptyResult
    /\ uml = <<[k |-> "@startuml"]>>
    /\ all_class_bases = <<>>
    /\ gen_errors = <<>>
    /\ gen_files_with_errors = <<>>
    /\ errors = <<>>
    /\ files_with_errors = <<>>
    /\ returned = <<>>
    /\ raised = <<>>
    /\ report = NoReport
    /\ an_errors = <<>>
    /\ an_files_with_errors = <<>>

Init ==
    /\ directory \in Directories
    /\ use_gitignore \in BOOLEAN
    /\ hashseed \in {0, 1}
    /\ Constructed
    /\ call = NoCall

MaxDescribes == 2   \* describe_file calls on one analyzer

\* The state after a describe_file call that ended with r.
Described(file_path, format, include_docs, r) ==
    /\ report' = [n |-> report.n + 1, file |-> file_path.name, format |-> format,
                  include_docs |-> include_docs, raised |-> r.raised,
                  parsed |-> r.parsed, output |-> r.output]
    /\ an_errors' = r.errors
    /\ an_files_with_errors' = r.files_with_errors
    /\ raised' = IF r.raised
                 THEN Append(raised, [op |-> "describe_file", exc |-> "ValueError"])
                 ELSE raised

\* A describe_file call.
DescribeFile ==
    /\ report.n < MaxDescribes
    /\ \E file_path \in {directory[i] : i \in 1..Len(directory)} \cup {MissingFile},
          format \in FORMATS \cup {"xml"}, include_docs \in BOOLEAN :
        Described(file_path, format, include_docs,
                  describe_file(file_path, format, include_docs, an_errors,
                                an_files_with_errors))
    /\ UNCHANGED <<directory, use_gitignore, hashseed, pc, pathlist, idx, parsed_data, uml,
                   all_class_bases, gen_errors, gen_files_with_errors, errors,
                   files_with_errors, returned, call>>

Next ==
    \/ GenerateUmlScan
    \/ GenerateUmlFile
    \/ GenerateUmlFinish

\* One generator over one directory, called up to MaxCalls times.
Spec == Init /\ [][Next]_vars

\* One analyzer asked to describe a file, or a path that names no file.
InitAnalyzer ==
    /\ directory \in DirectoriesUpTo(1)
    /\ use_gitignore = TRUE
    /\ hashseed \in {0, 1}
    /\ Constructed
    /\ call = NoCall

NextAnalyzer == DescribeFile

SpecAnalyzer == InitAnalyzer /\ [][NextAnalyzer]_vars

(***************************************************************************)
(* Direct calls of the pure functions, as the unit tests make them: one    *)
(* call on a freshly constructed parser or generator.                      *)
(***************************************************************************)
KINDS == {"class", "abstract", "dataclass", "interface"}

\* Optional[List[str]] arguments of _determine_class_type
BasesInputs == {None, Some(<<>>), Some(<<<<"A">>>>)}

DecoratorsInputs ==
    {None, Some(<<>>), Some(<<S_dataclass>>), Some(<<S_property>>),
     Some(<<S_property, S_dataclass>>)}

\* The identifiers of at most n characters over '_' and 'a'.
RECURSIVE NamesUpTo(_)
NamesUpTo(n) ==
    IF n = 0 THEN {<<>>}
    ELSE NamesUpTo(n - 1)
         \cup {Append(name, c) : name \in NamesUpTo(n - 1), c \in {"_", "a"}}

\* A member group of n (prefix, text) pairs whose texts start with tag.
Group(tag, n) == [i \in 1..n |-> <<<<"+">>, <<tag>> \o [j \in 1..i |-> "x"]>>]

\* The tuples parse_file builds for a class, and the tuple of seven values
\* of test_format_class_info.
ClassInfos ==
    {<<<<"C">>, Group("f", nf), Group("a", na), Group("s", ns), Group("m", nm),
       Group("p", np), class_type, <<>>>> :
        nf \in 0..MaxGroup, na \in 0..MaxGroup, ns \in 0..MaxGroup,
        nm \in 0..MaxGroup, np \in 0..MaxGroup, class_type \in KINDS}
    \cup {<<<<"C">>, Group("f", 1), <<>>, <<>>, Group("m", 1), "class", <<>>>>}

\* Property getters named v, by body and return annotation.
GetterBodies ==
    {<<Return(Name(<<"a">>))>>,
     <<Raise(Name(S_AttributeError))>>,
     <<Raise(CallExpr(Name(S_AttributeError)))>>,
     <<Raise(Name(<<"E">>))>>,
     <<Raise(NoExpr)>>,
     <<Pass, Raise(CallExpr(Name(S_AttributeError)))>>}

Getters ==
    {FunctionDef(<<"v">>, <<Arg(S_self, NoExpr)>>, <<Name(S_property)>>, returns, body) :
        returns \in {NoExpr, Name(<<"i", "n", "t">>)}, body \in GetterBodies}

\* A function of a class body named name and decorated owner.attr.
Accessor(name, owner, attr) ==
    FunctionDef(name, <<Arg(S_self, NoExpr), Arg(<<"a">>, NoExpr)>>,
                <<Attribute(Name(owner), attr)>>, NoExpr, <<Pass>>)

\* What may follow the getter of v in a class body: its setter, its deleter,
\* the setter of another property w, and a function w decorated v.setter.
AccessorLists ==
    {<<>>,
     <<Accessor(<<"v">>, <<"v">>, S_setter)>>,
     <<Accessor(<<"v">>, <<"v">>, S_deleter)>>,
     <<Accessor(<<"v">>, <<"v">>, S_setter), Accessor(<<"v">>, <<"v">>, S_deleter)>>,
     <<Accessor(<<"w">>, <<"w">>, S_setter)>>,
     <<Accessor(<<"w">>, <<"v">>, S_setter)>>,
     <<Accessor(<<"w">>, <<"w">>, S_setter), Accessor(<<"v">>, <<"v">>, S_deleter)>>}

InitFn ==
    /\ directory = <<>>
    /\ use_gitignore = FALSE
    /\ hashseed = 0
    /\ Constructed
    /\ call = NoCall

\* A call of _determine_class_type.
CallDetermineClassType ==
    /\ ~call.done
    /\ \E has_fields \in BOOLEAN, abstract_method_count \in 0..MaxCount,
          total_method_count \in 0..MaxCount, bases \in BasesInputs,
          decorators \in DecoratorsInputs :
        call' = [fn |-> "_determine_class_type",
                 args |-> <<has_fields, abstract_method_count, total_method_count,
                            bases, decorators>>,
                 done |-> TRUE,
                 ret |-> _determine_class_type(has_fields, abstract_method_count,
                                               total_method_count, bases, decorators)]
    /\ UNCHANGED <<directory, use_gitignore, hashseed, pc, pathlist, idx, parsed_data, uml,
                   all_class_bases, gen_errors, gen_files_with_errors, errors,
                   files_with_errors, returned, raised, report, an_errors,
                   an_files_with_errors>>

\* A call of _visibility.
CallVisibility ==
    /\ ~call.done
    /\ \E name \in NamesUpTo(MaxNameLen) :
        call' = [fn |-> "_visibility", args |-> <<name>>, done |-> TRUE,
                 ret |-> _visibility(name)]
    /\ UNCHANGED <<directory, use_gitignore, hashseed, pc, pathlist, idx, parsed_data, uml,
                   all_class_bases, gen_errors, gen_files_with_errors, errors,
                   files_with_errors, returned, raised, report, an_errors,
                   an_files_with_errors>>

\* A call of _format_class_info.
CallFormatClassInfo ==
    /\ ~call.done
    /\ \E class_info \in ClassInfos :
        call' = [fn |-> "_format_class_info", args |-> <<class_info>>, done |-> TRUE,
                 ret |-> _format_class_info(class_info)]
    /\ UNCHANGED <<directory, use_gitignore, hashseed, pc, pathlist, idx, parsed_data, uml,
                   all_class_bases, gen_errors, gen_files_with_errors, errors,
                   files_with_errors, returned, raised, report, an_errors,
                   an_files_with_errors>>

\* A call of _process_property_method, as _process_class_def makes it.
CallProcessPropertyMethod ==
    /\ ~call.done
    /\ \E property_node \in Getters, accessors \in AccessorLists :
        call' = [fn |-> "_process_property_method",
                 args |-> <<property_node, <<property_node>> \o accessors>>,
                 done |-> TRUE,
                 ret |-> _process_property_method(property_node,
                                                  <<property_node>> \o accessors)]
    /\ UNCHANGED <<directory, use_gitignore, hashseed, pc, pathlist, idx, parsed_data, uml,
                   all_class_bases, gen_errors, gen_files_with_errors, errors,
                   files_with_errors, returned, raised, report, an_errors,
                   an_files_with_errors>>

\* The bases the tests of the adapter pass: None, [] and ['ABC'].
AdapterBasesInputs == BasesInputs \cup {Some(<<<<"A", "B", "C">>>>)}

\* A call of the adapter's determine_class_type.
CallAdapterDetermineClassType ==
    /\ ~call.done
    /\ \E has_fields \in BOOLEAN, abstract_method_count \in 0..MaxCount,
          total_method_count \in 0..MaxCount, bases \in AdapterBasesInputs :
        call' = [fn |-> "determine_class_type",
                 args |-> <<has_fields, abstract_method_count, total_method_count, bases>>,
                 done |-> TRUE,
                 ret |-> determine_class_type(has_fields, abstract_method_count,
                                              total_method_count, bases)]
    /\ UNCHANGED <<directory, use_gitignore, hashseed, pc, pathlist, idx, parsed_data, uml,
                   all_class_bases, gen_errors, gen_files_with_errors, errors,
                   files_with_errors, returned, raised, report, an_errors,
                   an_files_with_errors>>

\* The statements of a constructor body: assignments to attributes of self
\* (x public, _y protected), an annotated assignment 'self.z: int = 1', an
\* assignment to a local name, and pass.
InitStatements ==
    {Assign(<<Attribute(Name(S_self), <<"x">>)>>),
     Assign(<<Attribute(Name(S_self), <<"_", "y">>)>>),
     AnnAssign(Attribute(Name(S_self), <<"z">>), Name(<<"i", "n", "t">>)),
     Assign(<<Name(<<"a">>)>>),
     Pass}

\* Classes named A whose body is a constructor of at most MaxInitBody
\* statements.
MaxInitBody == 2

ClassesWithInit ==
    {ClassDef(<<"A">>, <<>>, <<>>,
              <<FunctionDef(S_init, <<Arg(S_self, NoExpr)>>, <<>>, NoExpr, init_body)>>) :
        init_body \in UNION {[1..n -> InitStatements] : n \in 1..MaxInitBody}}

\* A call of _process_class_def.
CallProcessClassDef ==
    /\ ~call.done
    /\ \E node \in ClassesWithInit :
        call' = [fn |-> "_process_class_def", args |-> <<node>>, done |-> TRUE,
                 ret |-> _process_class_def(node)]
    /\ UNCHANGED <<directory, use_gitignore, hashseed, pc, pathlist, idx, parsed_data, uml,
                   all_class_bases, gen_errors, gen_files_with_errors, errors,
                   files_with_errors, returned, raised, report, an_errors,
                   an_files_with_errors>>

\* The file 'class B(A): pass / def f(a): ... / y = 1' with an exception
\* raised while one of its statements is extracted.
FaultyFiles ==
    UNION {{File([name |-> <<"a">>, gitignored |-> FALSE],
                 [SRC_FunctionAndGlobal EXCEPT !.body[i] = Faulty(@, where)]) :
               where \in IF SRC_FunctionAndGlobal.body[i].type = "ClassDef"
                         THEN {"helper", "statement", "append"}
                         ELSE {"helper", "statement"}} :
           i \in 1..Len(SRC_FunctionAndGlobal.body)}

\* The file 'class A: def __init__(self): self.x = 1 / def m(self): pass'
\* with an exception raised while one member of the class is extracted.
FaultyMemberFiles ==
    {File([name |-> <<"a">>, gitignored |-> FALSE],
          [SRC_FieldAndMethod EXCEPT !.body[1].body[j] = Faulty(@, where)]) :
        j \in 1..Len(SRC_FieldAndMethod.body[1].body), where \in {"helper", "statement"}}

\* A call of parse_file on a fresh parser.
CallParseFile ==
    /\ ~call.done
    /\ \E file_path \in FaultyFiles \cup FaultyMemberFiles :
        call' = [fn |-> "parse_file", args |-> <<file_path>>, done |-> TRUE,
                 ret |-> parse_file(file_path, <<>>, <<>>)]
    /\ UNCHANGED <<directory, use_gitignore, hashseed, pc, pathlist, idx, parsed_data, uml,
                   all_class_bases, gen_errors, gen_files_with_errors, errors,
                   files_with_errors, returned, raised, report, an_errors,
                   an_files_with_errors>>

\* Annotations of a class-level annotated assignment: int, 'T', m.T, L[int],
\* 'int | None' (a binary operation) and L[int | None].
AnnotationInputs ==
    {Name(<<"i", "n", "t">>), Constant(<<"T">>), Attribute(Name(<<"m">>), <<"T">>),
     Subscript(Name(<<"L">>), Name(<<"i", "n", "t">>)), BinOp,
     Subscript(Name(<<"L">>), BinOp)}

\* A call of _process_attributes on 'x: <annotation>' and '_y: <annotation>'.
CallProcessAttributes ==
    /\ ~call.done
    /\ \E attr_name \in {<<"x">>, <<"_", "y">>}, annotation \in AnnotationInputs :
        call' = [fn |-> "_process_attributes",
                 args |-> <<AnnAssign(Name(attr_name), annotation)>>, done |-> TRUE,
                 ret |-> _process_attributes(AnnAssign(Name(attr_name), annotation))]
    /\ UNCHANGED <<directory, use_gitignore, hashseed, pc, pathlist, idx, parsed_data, uml,
                   all_class_bases, gen_errors, gen_files_with_errors, errors,
                   files_with_errors, returned, raised, report, an_errors,
                   an_files_with_errors>>

\* Statements of a function body: 'return a', 'return a()', 'return b()',
\* a nested 'def w(): pass', a nested 'async def w(): pass', and pass.
FunctionStatements ==
    {Return(Name(<<"a">>)), Return(CallExpr(Name(<<"a">>))), Return(CallExpr(Name(<<"b">>))),
     FunctionDef(<<"w">>, <<>>, <<>>, NoExpr, <<Pass>>),
     AsyncFunctionDef(<<"w">>, <<>>, <<>>, NoExpr, <<Pass>>), Pass}

\* Top-level functions d(a), with and without a decorator, whose body holds
\* at most MaxFnBody statements.
MaxFnBody == 2

FunctionInputs ==
    {FunctionDef(<<"d">>, <<Arg(<<"a">>, NoExpr)>>, decorator_list, NoExpr, body) :
        decorator_list \in {<<>>, <<Name(<<"c">>)>>},
        body \in UNION {[1..n -> FunctionStatements] : n \in 1..MaxFnBody}}

\* A call of _is_decorator_function.
CallIsDecoratorFunction ==
    /\ ~call.done
    /\ \E node \in FunctionInputs :
        call' = [fn |-> "_is_decorator_function", args |-> <<node>>, done |-> TRUE,
                 ret |-> _is_decorator_function(node)]
    /\ UNCHANGED <<directory, use_gitignore, hashseed, pc, pathlist, idx, parsed_data, uml,
                   all_class_bases, gen_errors, gen_files_with_errors, errors,
                   files_with_errors, returned, raised, report, an_errors,
                   an_files_with_errors>>

NextFn ==
    \/ CallDetermineClassType
    \/ CallAdapterDetermineClassType
    \/ CallProcessClassDef
    \/ CallParseFile
    \/ CallProcessAttributes
    \/ CallIsDecoratorFunction
    \/ CallVisibility
    \/ CallFormatClassInfo
    \/ CallProcessPropertyMethod

SpecFn == InitFn /\ [][NextFn]_vars

(***************************************************************************)
(* The scan loop of _parse_file_partially, one loop iteration per step.    *)
(* call holds the frame of the call: the index i of the next line (from    *)
(* 1), the lists built so far, and, between a class line and the end of    *)
(* its block (at = "inner"), the block's lines and brace_count.            *)
(***************************************************************************)
MaxLines == 3   \* lines of the scanned text

\* The lines a scanned text is made of.
ScanLines ==
    {S_class_sp \o <<"A", ":">>,
     S_class_sp \o <<"A", ":", " ", "x", " ", "=", " ", "{">>,
     <<"}">>,
     <<"{">>,
     S_def_sp \o <<"f", "(", ":">>,
     <<" ", " ", " ", " ">> \o S_pass}

\* 'i += 1'
NextLineStays(i) == i

NextLine(i) == i + 1

\* The frame when the loop 'while i < len(lines)' is entered.
ScanFrame(lines) ==
    [fn |-> "_parse_file_partially", args |-> <<lines>>, done |-> FALSE, ret |-> <<>>,
     raised |-> FALSE, i |-> 1, at |-> "outer", line |-> <<>>, brace_count |-> 0,
     class_lines |-> <<>>, acc |-> EmptyResult]

InitScan ==
    /\ directory = <<>>
    /\ use_gitignore = FALSE
    /\ hashseed = 0
    /\ Constructed
    /\ call \in {ScanFrame(lines) : lines \in UNION {[1..n -> ScanLines] : n \in 1..MaxLines}}

\* One iteration of the outer loop: a class line opens a block, a def line
\* appends a placeholder, any other line is passed over.
ScanOuter ==
    /\ ~call.done /\ call.at = "outer" /\ call.i <= Len(call.args[1])
    /\ LET line == Strip(call.args[1][call.i])
       IN  call' =
             IF StartsWith(line, S_class_sp)
             THEN [call EXCEPT !.at = "inner", !.line = line, !.class_lines = <<line>>,
                               !.brace_count = Count(line, "{") - Count(line, "}"),
                               !.i = NextLine(@)]
             ELSE IF StartsWith(line, S_def_sp)
             THEN [call EXCEPT !.acc.functions =
                                  Append(@, <<"+", " ">>
                                            \o Strip(Split(Split(line, S_def_sp)[2], <<"(">>)[1])
                                            \o <<"(", ")">>),
                               !.i = NextLine(@)]
             ELSE [call EXCEPT !.i = NextLine(@)]
    /\ UNCHANGED <<directory, use_gitignore, hashseed, pc, pathlist, idx, parsed_data, uml,
                   all_class_bases, gen_errors, gen_files_with_errors, errors,
                   files_with_errors, returned, raised, report, an_errors,
                   an_files_with_errors>>

\* One iteration of 'while i < len(lines) and brace_count > 0'.
ScanInner ==
    /\ ~call.done /\ call.at = "inner"
    /\ call.i <= Len(call.args[1]) /\ call.brace_count > 0
    /\ call' = [call EXCEPT !.class_lines = Append(@, call.args[1][call.i]),
                            !.brace_count = @ + Count(call.args[1][call.i], "{")
                                              - Count(call.args[1][call.i], "}"),
                            !.i = NextLine(@)]
    /\ UNCHANGED <<directory, use_gitignore, hashseed, pc, pathlist, idx, parsed_data, uml,
                   all_class_bases, gen_errors, gen_files_with_errors, errors,
                   files_with_errors, returned, raised, report, an_errors,
                   an_files_with_errors>>

\* The rest of the class branch once the block is collected: the block is
\* parsed and its result unpacked, which raises out of the function or
\* stores the class and goes to the next line.
ScanClassEnd ==
    /\ ~call.done /\ call.at = "inner"
    /\ ~(call.i <= Len(call.args[1]) /\ call.brace_count > 0)
    /\ call' =
         IF UnpackSix(try_parse_class_block(call.class_lines, ClassLineName(call.line))) # ""
         THEN [call EXCEPT !.done = TRUE, !.raised = TRUE]
         ELSE [call EXCEPT !.at = "outer", !.i = NextLine(@),
                           !.acc = WithClass(@, ClassLineName(call.line),
                                             ClassLineBases(call.line),
                                             try_parse_class_block(call.class_lines,
                                                                   ClassLineName(call.line)))]
    /\ UNCHANGED <<directory, use_gitignore, hashseed, pc, pathlist, idx, parsed_data, uml,
                   all_class_bases, gen_errors, gen_files_with_errors, errors,
                   files_with_errors, returned, raised, report, an_errors,
                   an_files_with_errors>>

\* The loop ends and the lists are returned.
ScanReturn ==
    /\ ~call.done /\ call.at = "outer" /\ call.i > Len(call.args[1])
    /\ call' = [call EXCEPT !.done = TRUE, !.ret = call.acc]
    /\ UNCHANGED <<directory, use_gitignore, hashseed, pc, pathlist, idx, parsed_data, uml,
                   all_class_bases, gen_errors, gen_files_with_errors, errors,
                   files_with_errors, returned, raised, report, an_errors,
                   an_files_with_errors>>

NextScan ==
    \/ ScanOuter
    \/ ScanInner
    \/ ScanClassEnd
    \/ ScanReturn

\* The interpreter runs the loop on: a step that can be taken is taken.
SpecScan == InitScan /\ [][NextScan]_vars /\ WF_vars(NextScan)

(***************************************************************************)
(* Properties of the pure functions (SpecFn).                              *)
(***************************************************************************)
\* C1: _determine_class_type returns 'dataclass' when decorators holds
\* 'dataclass'; else 'abstract' when abstract_method_count > 0; else
\* 'dataclass' when has_fields and total_method_count = 0; else 'interface'
\* when total_method_count = 0; else 'class'.  The result is one of the four
\* kinds, is the same for every value of bases, and each kind is returned
\* for some input.
ClassTypePrecedence ==
    /\ (call.done /\ call.fn = "_determine_class_type") =>
        LET has_fields == call.args[1]
            abstract_method_count == call.args[2]
            total_method_count == call.args[3]
            decorators == call.args[5]
            decorated == /\ decorators # None
                         /\ \E i \in 1..Len(decorators.val) : decorators.val[i] = S_dataclass
        IN  /\ call.ret \in KINDS
            /\ decorated => call.ret = "dataclass"
            /\ (~decorated /\ abstract_method_count > 0) => call.ret = "abstract"
            /\ (~decorated /\ abstract_method_count = 0 /\ has_fields
                /\ total_method_count = 0) => call.ret = "dataclass"
            /\ (~decorated /\ abstract_method_count = 0 /\ ~has_fields
                /\ total_method_count = 0) => call.ret = "interface"
            /\ (~decorated /\ abstract_method_count = 0 /\ total_method_count > 0)
                    => call.ret = "class"
            /\ \A bases \in BasesInputs :
                    _determine_class_type(has_fields, abstract_method_count,
                                          total_method_count, bases, decorators) = call.ret
    /\ \A kind \in KINDS :
        \E has_fields \in BOOLEAN, abstract_method_count \in 0..MaxCount,
           total_method_count \in 0..MaxCount, decorators \in DecoratorsInputs :
            _determine_class_type(has_fields, abstract_method_count, total_method_count,
                                  None, decorators) = kind

\* Scenario D: a class decorated with dataclass that has methods, abstract
\* ones among them, is a dataclass.
DecoratorWinsOverMethods ==
    /\ call.done
    /\ call.fn = "_determine_class_type"
    /\ call.args[2] > 0
    /\ call.args[3] > 0
    /\ call.args[5] = Some(<<S_property, S_dataclass>>)
    /\ call.ret = "dataclass"

\* C2: _visibility gives every name, the empty one included, one prefix: '~'
\* when the name starts and ends with '__'; else '-' when it starts with
\* '__'; else '#' when it starts with '_'; else '+'.
VisibilityPriority ==
    (call.done /\ call.fn = "_visibility") =>
        LET name == call.args[1]
            n == Len(name)
            leading == IF n >= 1 /\ name[1] = "_"
                       THEN IF n >= 2 /\ name[2] = "_" THEN 2 ELSE 1
                       ELSE 0
            trailing2 == n >= 2 /\ name[n - 1] = "_" /\ name[n] = "_"
        IN  /\ call.ret[1] \in {<<"~">>, <<"-">>, <<"#">>, <<"+">>}
            /\ (leading = 2 /\ trailing2) => call.ret[1] = <<"~">>
            /\ (leading = 2 /\ ~trailing2) => call.ret[1] = <<"-">>
            /\ leading = 1 => call.ret[1] = <<"#">>
            /\ leading = 0 => call.ret[1] = <<"+">>

\* The name '__' starts and ends with '__'.
DoubleUnderscoreAlone ==
    /\ call.done
    /\ call.fn = "_visibility"
    /\ call.args[1] = <<"_", "_">>
    /\ call.ret[1] = <<"~">>

\* The positions of the member lines in a class block's body.
MemberPositions(body) ==
    SelectSeq([i \in 1..Len(body) |-> i], LAMBDA i : body[i].k = "member")

\* The section of the k-th member line of a block built from class_info:
\* 1 fields, 2 properties and methods, 3 static attributes, 4 static methods.
SectionOf(class_info, k) ==
    IF k <= Len(class_info[2]) THEN 1
    ELSE IF k <= Len(class_info[2]) + Len(class_info[6]) + Len(class_info[5]) THEN 2
    ELSE IF k <= Len(class_info[2]) + Len(class_info[6]) + Len(class_info[5])
                 + Len(class_info[3]) THEN 3
    ELSE 4

HasParsed == idx > 1

LastParsed == pathlist[idx - 1]

\* ast.parse raises SyntaxError for the text of the file.
SyntaxErrorFile(file_path) ==
    file_path.exists /\ file_path.readable /\ file_path.utf8 /\ ~file_path.syntax_ok

RecordedFor(messages, file_path) ==
    \E i \in 1..Len(messages) : messages[i].file = file_path.name

\* C3: after parse_file on a file whose text does not parse, the caller holds
\* a dictionary with the keys classes, functions, global_vars and
\* class_bases, the parser's errors hold a message for the file, and no
\* exception has reached generate_uml's handler, also when
\* _parse_file_partially raised.
ParseFileRecovers ==
    (HasParsed /\ SyntaxErrorFile(LastParsed)) =>
        /\ DOMAIN parsed_data = {"classes", "functions", "global_vars", "class_bases"}
        /\ RecordedFor(errors, LastParsed)
        /\ HasKey(files_with_errors, LastParsed.name)
        /\ \A i \in 1..Len(gen_errors) : gen_errors[i].msg # "Error processing file"

\* parse_file has returned from a file on which _parse_file_partially raised.
FallbackScannerFailed ==
    /\ HasParsed
    /\ SyntaxErrorFile(LastParsed)
    /\ \E i \in 1..Len(errors) :
        /\ errors[i].file = LastParsed.name
        /\ errors[i].msg = "Unexpected error reading"
    /\ parsed_data = EmptyResult

\* C4: parse_file on the file with the well-formed class G and the broken
\* class E returns a classes list that holds G, and records a message.
ScenarioFKeepsGoodClass ==
    (HasParsed /\ LastParsed.lines = SRC_GoodAndBrokenClass.lines) =>
        /\ \E i \in 1..Len(parsed_data.classes) : parsed_data.classes[i][1] = <<"G">>
        /\ RecordedFor(errors, LastParsed)

LinesStarting(lines, prefix) ==
    SelectSeq([i \in 1..Len(lines) |-> Strip(lines[i])],
              LAMBDA line : StartsWith(line, prefix))

GenerateUmlIdempotent ==
    Len(returned) >= 2 => returned[2] = returned[1]

\* The annotation lines of the package opened at line i of doc.
NotesOf(doc, i) ==
    {j \in (i + 1)..Len(doc) :
        /\ doc[j].k = "note"
        /\ \A m \in i..j : doc[m].k # "package_close"}

\* The messages the parser has recorded for the file of the package name.
DiagnosticsOf(package_name) ==
    {errors[j] : j \in {m \in 1..Len(errors) : PackageName(errors[m].file) = package_name}}

\* C9: a package of the document has the error colour when the parser has
\* recorded a message for its file and the neutral colour when it has not,
\* and holds one annotation line for each message recorded for its file.
PackageShowsDiagnostics ==
    \A i \in {m \in 1..Len(uml) : uml[m].k = "package"} :
        /\ uml[i].color \in {ERROR_COLOR, NEUTRAL_COLOR}
        /\ uml[i].color = ERROR_COLOR <=> DiagnosticsOf(uml[i].name) # {}
        /\ Cardinality(NotesOf(uml, i)) = Cardinality(DiagnosticsOf(uml[i].name))

(***************************************************************************)
(* Properties of describe_file (SpecAnalyzer).                             *)
(***************************************************************************)
\* The file of the last describe_file call.
DescribedFile ==
    IF Len(directory) = 1 /\ directory[1].name = report.file THEN directory[1]
    ELSE MissingFile

TopLevelClassNames(file_path) ==
    LET defs == SelectSeq(file_path.body, LAMBDA node : node.type = "ClassDef")
    IN  [i \in 1..Len(defs) |-> defs[i].name]

\* C6: describe_file with format json or yaml on a file that parses returns
\* a document of that format whose classes list names the top-level classes
\* of the file, one entry each.
DescribeListsEveryClass ==
    (/\ report.n > 0
     /\ report.format \in {"json", "yaml"}
     /\ DescribedFile.exists /\ DescribedFile.readable /\ DescribedFile.utf8
     /\ DescribedFile.syntax_ok) =>
        /\ report.output.kind = report.format
        /\ [i \in 1..Len(report.output.data.val.classes) |->
                report.output.data.val.classes[i].name] = TopLevelClassNames(DescribedFile)

\* C7: a describe_file call raises exactly when the format is none of text,
\* json and yaml; a call that raises has not parsed the file and has left
\* the parser's errors and files_with_errors as they were; a call that does
\* not raise returns a string that starts with 'Error:' or a report in the
\* format asked for.
DescribeRaisesOnlyOnFormat ==
    [][report'.n # report.n =>
        /\ report'.raised <=> report'.format \notin {"text", "json", "yaml"}
        /\ report'.raised =>
            /\ ~report'.parsed
            /\ an_errors' = an_errors
            /\ an_files_with_errors' = an_files_with_errors
            /\ raised' = Append(raised, [op |-> "describe_file", exc |-> "ValueError"])
        /\ ~report'.raised =>
            /\ raised' = raised
            /\ report'.output.kind \in {"Error:", report'.format}]_vars

\* describe_file has raised for the format xml on a file that does not parse.
UnsupportedFormatRaised ==
    /\ report.n > 0
    /\ report.raised
    /\ report.format = "xml"
    /\ SyntaxErrorFile(DescribedFile)
    /\ raised # <<>>

(***************************************************************************)
(* Inheritance lines of generate_uml (Spec).                               *)
(***************************************************************************)
\* The (class, base) pairs of the merged map all_class_bases.
InheritancePairs ==
    UNION {{<<all_class_bases[i][1], all_class_bases[i][2][j]>> :
                j \in 1..Len(all_class_bases[i][2])} : i \in 1..Len(all_class_bases)}

\* The lines of doc that are the inheritance line of the pair.
LinesOfPair(doc, pair) ==
    {n \in 1..Len(doc) : /\ doc[n].k = "inherit"
                         /\ doc[n].name = pair[1]
                         /\ doc[n].base = pair[2]}

\* C11: the document a generate_uml call returns after processing the files
\* holds exactly one inheritance line for each (class, base) pair of the
\* merged map and no other inheritance line, and every inheritance line
\* comes after the last package block and before the closing marker.
InheritanceLinesOnceAtEnd ==
    (pc = "idle" /\ returned # <<>> /\ pathlist # <<>>) =>
        LET doc == returned[Len(returned)]
        IN  /\ \A pair \in InheritancePairs : Cardinality(LinesOfPair(doc, pair)) = 1
            /\ \A n \in 1..Len(doc) :
                doc[n].k = "inherit" =>
                    /\ <<doc[n].name, doc[n].base>> \in InheritancePairs
                    /\ n < Len(doc)
                    /\ \A m \in 1..Len(doc) :
                        doc[m].k \in {"package", "package_close"} => m < n
            /\ doc[Len(doc)].k = "@enduml"

(***************************************************************************)
(* Properties of the class body extraction (SpecFn).                       *)
(***************************************************************************)
\* The functions of class_body named name that carry the decorator name.attr.
AccessorsOf(class_body, name, attr) ==
    SelectSeq(class_body, LAMBDA node :
        /\ node.type = "FunctionDef"
        /\ node.name = name
        /\ \E i \in 1..Len(node.decorator_list) :
            node.decorator_list[i] = Attribute(Name(name), attr))

\* A statement of the getter's body raises AttributeError.
RaisesAttributeError(getter) ==
    \E i \in 1..Len(getter.body) :
        /\ getter.body[i].type = "Raise"
        /\ getter.body[i].exc \in {Name(S_AttributeError), CallExpr(Name(S_AttributeError))}

\* C12: _process_property_method gives a getter the level '{read only}' when
\* the class body has no function of its name decorated '<name>.setter',
\* '{write only}' when it has one and the getter raises AttributeError, and
\* '{read write}' when it has one and the getter does not; taking the
\* deleters out of the class body does not change the result.
PropertyAccessLevel ==
    (call.done /\ call.fn = "_process_property_method") =>
        LET getter == call.args[1]
            class_body == call.args[2]
            has_setter == AccessorsOf(class_body, getter.name, S_setter) # <<>>
            no_deleters == SelectSeq(class_body, LAMBDA node :
                               AccessorsOf(<<node>>, node.name, S_deleter) = <<>>)
        IN  /\ ~has_setter => EndsWith(call.ret[2], <<" ">> \o S_read_only)
            /\ (has_setter /\ RaisesAttributeError(getter))
                    => EndsWith(call.ret[2], <<" ">> \o S_write_only)
            /\ (has_setter /\ ~RaisesAttributeError(getter))
                    => EndsWith(call.ret[2], <<" ">> \o S_read_write)
            /\ _process_property_method(getter, no_deleters) = call.ret

\* A getter that raises AttributeError, with a setter and a deleter.
WriteOnlyProperty ==
    /\ call.done
    /\ call.fn = "_process_property_method"
    /\ RaisesAttributeError(call.args[1])
    /\ AccessorsOf(call.args[2], <<"v">>, S_setter) # <<>>
    /\ AccessorsOf(call.args[2], <<"v">>, S_deleter) # <<>>
    /\ EndsWith(call.ret[2], S_write_only)

(***************************************************************************)
(* The parser's diagnostics (Spec).                                        *)
(***************************************************************************)
\* C13: parse_file records each message in errors and, under the file's
\* path, in files_with_errors; a message recorded is never removed or
\* replaced, so every message of errors is still listed under its file in
\* files_with_errors.
DiagnosticsKept ==
    \A i \in 1..Len(errors) :
        /\ HasKey(files_with_errors, errors[i].file)
        /\ \E j \in 1..Len(Get(files_with_errors, errors[i].file)) :
            Get(files_with_errors, errors[i].file)[j] = errors[i]

(***************************************************************************)
(* Documentation strings of describe_file (SpecAnalyzer).                  *)
(***************************************************************************)
\* describe_file has returned a report for a file that parses.
ReportProduced ==
    /\ report.n > 0
    /\ ~report.raised
    /\ report.output.kind \in FORMATS
    /\ DescribedFile.exists /\ DescribedFile.readable /\ DescribedFile.utf8
    /\ DescribedFile.syntax_ok

\* The top-level functions of the file whose first statement is a string
\* literal.
DocumentedFunctionDefs(file_path) ==
    SelectSeq(file_path.body,
              LAMBDA node : /\ node.type \in {"FunctionDef", "AsyncFunctionDef"}
                            /\ node.body # <<>>
                            /\ node.body[1].type = "Expr"
                            /\ node.body[1].value.type = "Constant")

\* C14: in a report of describe_file on a file that parses, every listed
\* top-level function whose first statement is a string literal has, with
\* include_docs=True, the literal stripped of surrounding whitespace as its
\* documentation, and with include_docs=False no documentation.
FunctionDocumentationReported ==
    ReportProduced =>
        \A i \in 1..Len(report.output.data.val.functions) :
            \A j \in 1..Len(DocumentedFunctionDefs(DescribedFile)) :
                LET func == report.output.data.val.functions[i]
                    node == DocumentedFunctionDefs(DescribedFile)[j]
                IN  func.signature = _process_function_def(node) =>
                        func.documentation =
                            IF report.include_docs
                            THEN Some(Strip(node.body[1].value.value))
                            ELSE None

(***************************************************************************)
(* Renderings of describe_file (SpecAnalyzer).                             *)
(***************************************************************************)
\* The summary counts and the numbers of listed classes, functions and
\* variables read back from a rendering.
ReadBack(output) ==
    IF output.kind = "text"
    THEN LET line == output.rendering[2]
             listed(k) == Len(SelectSeq(output.rendering, LAMBDA l : l.k = k))
         IN  [summary |-> [lines |-> line.lines, classes |-> line.classes,
                           functions |-> line.functions, variables |-> line.variables],
              classes |-> listed("class"), functions |-> listed("function"),
              variables |-> listed("variable")]
    ELSE LET data == IF output.kind = "json" THEN output.rendering.object
                     ELSE output.rendering.mapping
         IN  [summary |-> data.summary, classes |-> Len(data.classes),
              functions |-> Len(data.functions), variables |-> Len(data.variables)]

AdapterMatchesOldGenerator ==
    (call.done /\ call.fn = "determine_class_type") =>
        /\ call.ret = uml_generator_determine_class_type(call.args[1], call.args[2],
                                                         call.args[3], call.args[4])
        /\ call.ret \in {"interface", "abstract class", "class"}

(***************************************************************************)
(* Class entries of parse_file (Spec).                                     *)
(***************************************************************************)
\* parse_file took the primary path for the file last parsed.
PrimaryPath ==
    /\ HasParsed
    /\ LastParsed.exists /\ LastParsed.readable /\ LastParsed.utf8 /\ LastParsed.syntax_ok

\* The top-level class statements of a module, in declaration order.
TopLevelClassDefs(file_path) ==
    SelectSeq(file_path.body, LAMBDA node : node.type = "ClassDef")

\* The kind _determine_class_type gives for the members and bases of a class
\* entry, the decorators found on the class and the number of abstract
\* methods counted in it.
KindOfEntry(entry, decorators, abstract_method_count) ==
    _determine_class_type(Len(entry[2]) > 0, abstract_method_count,
                          Len(entry[4]) + Len(entry[5]), Some(entry[8]), Some(decorators))

RECURSIVE IdentifierBases(_)
IdentifierBases(bases) ==
    IF bases = <<>> THEN <<>>
    ELSE (IF Head(bases).type = "Name" THEN <<Head(bases).id>> ELSE <<>>)
         \o IdentifierBases(Tail(bases))

\* A name without the characters of an attribute, call, subscript or
\* keyword expression.
PlainIdentifier(name) ==
    /\ name # <<>>
    /\ \A k \in 1..Len(name) : name[k] \notin {".", "(", ")", "[", "]", "=", " ", ","}

IsSelf(target) ==
    target.type = "Attribute" /\ target.value.type = "Name" /\ target.value.id = S_self

SelfAssignments(node) ==
    SelectSeq(node.body[1].body,
              LAMBDA item : \/ item.type = "Assign" /\ \E k \in 1..Len(item.targets) :
                                                          IsSelf(item.targets[k])
                            \/ item.type = "AnnAssign" /\ IsSelf(item.target))

\* C20: the fields _process_class_def extracts for a class with a
\* constructor are the attributes of self assigned in the constructor body,
\* each with the visibility of its name: every field comes from such an
\* assignment, every plain assignment gives the field (prefix, name), and
\* every annotated assignment gives a field that names the attribute and
\* carries the declared type.
FieldsOfInit ==
    (call.done /\ call.fn = "_process_class_def") =>
        LET fields == call.ret[2]
            assigned == SelfAssignments(call.args[1])
        IN  /\ \A i \in 1..Len(fields) :
                  \E j \in 1..Len(assigned) :
                      LET attr == IF assigned[j].type = "Assign"
                                  THEN assigned[j].targets[1].attr
                                  ELSE assigned[j].target.attr
                      IN  /\ fields[i][1] = _visibility(attr)[1]
                          /\ StartsWith(fields[i][2], attr)
            /\ \A j \in 1..Len(assigned) :
                  IF assigned[j].type = "Assign"
                  THEN \E i \in 1..Len(fields) :
                          fields[i] = <<_visibility(assigned[j].targets[1].attr)[1],
                                        assigned[j].targets[1].attr>>
                  ELSE \E i \in 1..Len(fields) :
                          /\ fields[i][1] = _visibility(assigned[j].target.attr)[1]
                          /\ StartsWith(fields[i][2], assigned[j].target.attr)
                          /\ EndsWith(fields[i][2],
                                      _get_type_annotation(assigned[j].annotation))

(***************************************************************************)
(* Failures of single statements in parse_file (SpecFn).                   *)
(***************************************************************************)
\* The file without the statement whose extraction raised.
WithoutFailed(file_path) ==
    [file_path EXCEPT !.body = SelectSeq(@, LAMBDA n : n.type # "Faulty")]

\* C19: when the extraction of one top-level class, function or assignment
\* fails on the primary path of parse_file, a diagnostic is recorded for
\* the file and the result is the one of the file without that statement:
\* the other declarations in order and no entry for the failed one.
StatementFailureIsolated ==
    (call.done /\ call.fn = "parse_file" /\ call.args[1] \in FaultyFiles) =>
        /\ ~call.ret.raised
        /\ RecordedFor(call.ret.errors, call.args[1])
        /\ HasKey(call.ret.files_with_errors, call.args[1].name)
        /\ call.ret.result = parse_file(WithoutFailed(call.args[1]), <<>>, <<>>).result

(***************************************************************************)
(* Class-level annotated assignments (SpecFn).                             *)
(***************************************************************************)
\* C21: for a class-level annotated assignment _process_attributes returns
\* one attribute with the visibility prefix of the name and the text
\* '<name>: <type>', and the type is exactly "Any" when the annotation is
\* not a name, a constant, an attribute or a subscript.
AttributeTypeRendered ==
    (call.done /\ call.fn = "_process_attributes") =>
        LET body_item == call.args[1]
        IN  /\ Len(call.ret) = 1
            /\ call.ret[1][1] = _visibility(body_item.target.id)[1]
            /\ StartsWith(call.ret[1][2], body_item.target.id \o <<":", " ">>)
            /\ body_item.annotation.type \notin {"Name", "Constant", "Attribute", "Subscript"}
                   => call.ret[1][2] = body_item.target.id \o <<":", " ">> \o S_Any

(***************************************************************************)
(* Failures of single members in _process_class_def (SpecFn).              *)
(***************************************************************************)
\* The file without the class member whose extraction raised.
WithoutFailedMember(file_path) ==
    [file_path EXCEPT !.body[1].body = SelectSeq(@, LAMBDA n : n.type # "Faulty")]

\* C22: when the extraction of one member of a class body fails in
\* _process_class_def, a diagnostic is recorded for the file and the class
\* is the one of the body without that member: the other members are
\* extracted and no entry is emitted for the failed one.
MemberFailureIsolated ==
    (call.done /\ call.fn = "parse_file" /\ call.args[1] \in FaultyMemberFiles) =>
        /\ ~call.ret.raised
        /\ RecordedFor(call.ret.errors, call.args[1])
        /\ call.ret.result = parse_file(WithoutFailedMember(call.args[1]), <<>>, <<>>).result

(***************************************************************************)
(* Functions of the fallback path of parse_file (Spec).                    *)
(***************************************************************************)
\* The lines of a text that start with 'def ' without indentation.
TopLevelDefLines(lines) == SelectSeq(lines, LAMBDA line : StartsWith(line, S_def_sp))

\* C23: on the fallback path parse_file returns in functions one
\* placeholder '+ name()' for each line that declares a top-level function,
\* in line order, and nothing else: none for a declaration indented inside
\* a class or function, and the same whether or not the file has classes.
FallbackListsTopLevelFunctions ==
    (HasParsed /\ SyntaxErrorFile(LastParsed)) =>
        LET defs == TopLevelDefLines(LastParsed.lines)
        IN  parsed_data.functions =
                [i \in 1..Len(defs) |->
                    <<"+", " ">>
                    \o Strip(SubSeq(defs[i], 5, Find(defs[i], <<"(">>, 1) - 1))
                    \o <<"(", ")">>]

(***************************************************************************)
(* Decorator factories (SpecFn).                                           *)
(***************************************************************************)
\* C24: _is_decorator_function is true exactly when the function has a
\* decorator, or its body holds a nested function declaration, or its body
\* returns a call of one of its parameters, whatever the order of the
\* statements of the body.
DecoratorFunctionRule ==
    (call.done /\ call.fn = "_is_decorator_function") =>
        LET node == call.args[1]
        IN  call.ret <=>
              \/ node.decorator_list # <<>>
              \/ \E i \in 1..Len(node.body) :
                    node.body[i].type \in {"FunctionDef", "AsyncFunctionDef"}
              \/ \E i \in 1..Len(node.body) :
                    /\ node.body[i].type = "Return"
                    /\ node.body[i].value.type = "Call"
                    /\ node.body[i].value.func.type = "Name"
                    /\ \E k \in 1..Len(node.args) :
                          node.args[k].arg = node.body[i].value.func.id

(***************************************************************************)
(* Termination of the fallback scan (SpecScan).                            *)
(***************************************************************************)
\* C25: every iteration of the outer loop and of the inner loop of
\* _parse_file_partially moves the line index forward, the index never
\* passes the line after the last one, and the call ends, with its lists or
\* with an exception that parse_file catches.
FallbackScanTerminates ==
    /\ [][call' # call => (call'.i > call.i \/ call'.done)]_vars
    /\ <>(call.done)
    /\ [](call.done /\ ~call.raised => call.ret = _parse_file_partially(call.args[1]).val)
    /\ [](call.done /\ call.raised => _parse_file_partially(call.args[1]).raised)

\* The scan has ended after the inner loop collected two lines of a block.
BlockCollected ==
    /\ call.done
    /\ Len(call.class_lines) = 3
    /\ call.i = 4

(***************************************************************************)
(* The generator's list of diagnostics (Spec).                             *)
(***************************************************************************)
Occurrences(messages, m) == Len(SelectSeq(messages, LAMBDA x : x = m))

\* C26: once generate_uml has returned, UMLGenerator.errors holds every
\* diagnostic the parser produced as many times as it was produced, so a
\* diagnostic produced once is listed once however many files followed.
ErrorsListedOnce ==
    (pc = "idle" /\ returned # <<>>) =>
        \A k \in 1..Len(errors) :
            Occurrences(gen_errors, errors[k]) = Occurrences(errors, errors[k])

(***************************************************************************)
(* The order of the members of a class entry (Spec).                       *)
(***************************************************************************)
\* C27: each member list of a class entry parse_file returned is the same
\* under every iteration order of the set it was sorted from: sorting it
\* under either hash seed gives the list itself.
MemberOrderDeterministic ==
    HasParsed =>
        \A k \in 1..Len(parsed_data.classes) :
            \A j \in 2..6 :
                /\ SortedSetBy(parsed_data.classes[k][j], 0) = parsed_data.classes[k][j]
                /\ SortedSetBy(parsed_data.classes[k][j], 1) = parsed_data.classes[k][j]

(***************************************************************************)
(* The visibility of the variables of a report (SpecAnalyzer).             *)
(***************************************************************************)
\* C28: in a report describe_file produced, every variable carries the
\* visibility label _visibility gives to its name, names that start and
\* end with a double underscore included.
VariableVisibilityAgrees ==
    ReportProduced =>
        \A i \in 1..Len(report.output.data.val.variables) :
            report.output.data.val.variables[i].visibility
                = _visibility(report.output.data.val.variables[i].name)[2]

(***************************************************************************)
(* Hidden files (Spec).                                                    *)
(***************************************************************************)
\* C29: the document generate_uml builds holds no package block for a file
\* of the directory whose name starts with a dot, with the gitignore toggle
\* on or off.
HiddenFileNeverRendered ==
    \A i \in 1..Len(directory) :
        StartsWith(Basename(directory[i].name), <<".">>) =>
            \A k \in 1..Len(uml) :
                uml[k].k = "package" => uml[k].name # PackageName(directory[i].name)

(***************************************************************************)
(* The constructor counts as a method (SpecFn).                            *)
(***************************************************************************)
\* The member a statement of a class body stands for.
MemberNode(n) == IF n.type = "Faulty" THEN n.node ELSE n

\* The class has a constructor and none of its constructors is decorated.
PlainInit(node) ==
    /\ \E j \in 1..Len(node.body) :
          MemberNode(node.body[j]).type = "FunctionDef"
          /\ MemberNode(node.body[j]).name = S_init
    /\ \A j \in 1..Len(node.body) :
          (MemberNode(node.body[j]).type = "FunctionDef"
           /\ MemberNode(node.body[j]).name = S_init)
          => MemberNode(node.body[j]).decorator_list = <<>>

\* C30: for a class whose __init__ carries no decorator, fields imply
\* total_method_count >= 1, in the tuple _process_class_def returns and in
\* the entry parse_file builds from it, and the class type is "dataclass"
\* only if the class carries the dataclass decorator.
InitCountsAsMethod ==
    /\ (call.done /\ call.fn = "_process_class_def" /\ PlainInit(call.args[1])) =>
          /\ Len(call.ret[2]) > 0 => Len(call.ret[4]) + Len(call.ret[5]) >= 1
          /\ ClassKind(call.ret, NamedBases(call.args[1]),
                       _extract_decorators(call.args[1])) = "dataclass"
               => Contains(_extract_decorators(call.args[1]), S_dataclass)
    /\ (call.done /\ call.fn = "parse_file" /\ call.args[1] \in FaultyMemberFiles) =>
          \A k \in 1..Len(call.ret.result.classes) :
              /\ PlainInit(call.args[1].body[1])
              /\ Len(call.ret.result.classes[k][2]) > 0
                   => Len(call.ret.result.classes[k][4])
                        + Len(call.ret.result.classes[k][5]) >= 1
              /\ call.ret.result.classes[k][7] # "dataclass"

\* _process_class_def has returned fields for a class whose only method
\* is its constructor, and the class type is "class".
FieldsAndOnlyInit ==
    /\ call.done /\ call.fn = "_process_class_def"
    /\ Len(call.ret[2]) > 0
    /\ Len(call.ret[4]) + Len(call.ret[5]) = 1
    /\ ClassKind(call.ret, NamedBases(call.args[1]), _extract_decorators(call.args[1]))
         = "class"

====
